---- MODULE Spec2Model ----
(***************************************************************************)
(* A model of the seadex-API adapter: the Override Table (MappingService)  *)
(* with its unlocked background/forced refresh and reload, and the search  *)
(* pipeline (SearchService, TorrentProcessor, the api handlers).           *)
(*                                                                         *)
(* Strings are sequences of one-character strings.  A Python dict is a     *)
(* sequence of <<key, value>> pairs (insertion order is iteration order);  *)
(* a JSON object with optional keys is a record carrying the set "keys" of *)
(* the keys that are present.  An optional number is <<>> or <<n>>.        *)
(***************************************************************************)
EXTENDS Integers, Sequences, FiniteSets, TLC

\* ------------------------------------------------------------------------
\* Bounds of the model
\* ------------------------------------------------------------------------

\* Number of operations (refreshes, reloads, lookups) started in one behaviour.
MaxOps == 2

\* ------------------------------------------------------------------------
\* Optional values and small helpers
\* ------------------------------------------------------------------------

None == <<>>

Some(x) == <<x>>

SeqToSet(s) == {s[i] : i \in 1..Len(s)}

Min(S) == CHOOSE x \in S : \A y \in S : x <= y

Max(S) == CHOOSE x \in S : \A y \in S : x >= y

\* ------------------------------------------------------------------------
\* Characters
\* ------------------------------------------------------------------------

Digits == {"0", "1", "2", "3", "4", "5", "6", "7", "8", "9"}

DigitChars == <<"0", "1", "2", "3", "4", "5", "6", "7", "8", "9">>

Uppers == <<"A", "B", "C", "D", "E", "F", "G", "H", "I", "J", "K", "L", "M",
            "N", "O", "P", "Q", "R", "S", "T", "U", "V", "W", "X", "Y", "Z">>

Lowers == <<"a", "b", "c", "d", "e", "f", "g", "h", "i", "j", "k", "l", "m",
            "n", "o", "p", "q", "r", "s", "t", "u", "v", "w", "x", "y", "z">>

WhiteSpace == {" "}

IsDigit(c) == c \in Digits

\* \w of Python's re
IsWordChar(c) == c \in Digits \cup SeqToSet(Uppers) \cup SeqToSet(Lowers) \cup {"_"}

\* str.lower() on one character
LowerChar(c) ==
    IF \E i \in 1..Len(Uppers) : Uppers[i] = c
    THEN Lowers[CHOOSE i \in 1..Len(Uppers) : Uppers[i] = c]
    ELSE c

Lower(s) == [i \in 1..Len(s) |-> LowerChar(s[i])]

\* ------------------------------------------------------------------------
\* MappingService._normalize_search_term
\* ------------------------------------------------------------------------

\* re.sub(r'[^\w\s]', ' ', s)
PunctToSpace(s) ==
    [i \in 1..Len(s) |-> IF IsWordChar(s[i]) \/ s[i] \in WhiteSpace THEN s[i] ELSE " "]

RECURSIVE CollapseSpaces(_)
\* re.sub(r'\s+', ' ', s)
CollapseSpaces(s) ==
    IF Len(s) <= 1 THEN (IF Len(s) = 1 /\ s[1] \in WhiteSpace THEN <<" ">> ELSE s)
    ELSE IF s[1] \in WhiteSpace /\ s[2] \in WhiteSpace THEN CollapseSpaces(Tail(s))
    ELSE <<(IF s[1] \in WhiteSpace THEN " " ELSE s[1])>> \o CollapseSpaces(Tail(s))

RECURSIVE Strip(_)
\* str.strip()
Strip(s) ==
    IF s = <<>> THEN s
    ELSE IF s[1] \in WhiteSpace THEN Strip(Tail(s))
    ELSE IF s[Len(s)] \in WhiteSpace THEN Strip(SubSeq(s, 1, Len(s) - 1))
    ELSE s

NormalizeSearchTerm(term) == Strip(CollapseSpaces(PunctToSpace(Lower(term))))

\* Python's "a in b" for strings.
IsSubstring(a, b) ==
    \E i \in 1..(Len(b) - Len(a) + 1) : SubSeq(b, i, i + Len(a) - 1) = a

\* ------------------------------------------------------------------------
\* The regular expressions of the code, as searches over a string.  Every
\* search is re.search: the leftmost position where the pattern matches.
\* ------------------------------------------------------------------------

DigitVal(c) == (CHOOSE n \in 1..10 : DigitChars[n] = c) - 1

RECURSIVE ToInt(_)
\* int() of a string of digits
ToInt(s) == IF s = <<>> THEN 0 ELSE 10 * ToInt(SubSeq(s, 1, Len(s) - 1)) + DigitVal(s[Len(s)])

\* The end of the run of digits that starts at i: what a greedy \d+ takes.
RunEnd(s, i) == Max({j \in i..Len(s) : \A k \in i..j : IsDigit(s[k])})

DigitAt(s, i) == i >= 1 /\ i <= Len(s) /\ IsDigit(s[i])

\* The number a greedy (\d+) captures at i.
NumAt(s, i) == ToInt(SubSeq(s, i, RunEnd(s, i)))

\* A literal at position i, under re.IGNORECASE (lit is given in lower case).
LitAt(s, i, lit) ==
    /\ i >= 1
    /\ i + Len(lit) - 1 <= Len(s)
    /\ Lower(SubSeq(s, i, i + Len(lit) - 1)) = lit

\* The position after \s* matched greedily from i.
SkipWs(s, i) == Min({k \in i..(Len(s) + 1) : k > Len(s) \/ s[k] \notin WhiteSpace})

\* Where the digits of  lit (\d+)  or  lit \s* (\d+)  begin when lit is at i.
NumStart(s, i, lit, ws) == IF ws THEN SkipWs(s, i + Len(lit)) ELSE i + Len(lit)

\* The positions where  lit (\d+)  /  lit \s* (\d+)  matches.
LitNumStarts(s, lit, ws) ==
    {i \in 1..Len(s) : LitAt(s, i, lit) /\ DigitAt(s, NumStart(s, i, lit, ws))}

\* The number captured at the leftmost of the matches that start at starts.
NumOfFirst(s, starts, lit, ws) ==
    IF starts = {} THEN None ELSE Some(NumAt(s, NumStart(s, Min(starts), lit, ws)))

\* re.search of  lit (\d+)  /  lit \s* (\d+) : None, or Some(the number).
SearchLitNum(s, lit, ws) == NumOfFirst(s, LitNumStarts(s, lit, ws), lit, ws)

\* The first of two optional values that is there: a cascade of patterns.
OrElse(a, b) == IF a # None THEN a ELSE b

\* ------------------------------------------------------------------------
\* Mapping documents (the JSON served by the remote source / kept in the
\* local file)
\* ------------------------------------------------------------------------

\* An element of "also_search": a string, or a JSON value that is no string.
Alias(term) == [str |-> TRUE, val |-> term]

NotAString == [str |-> FALSE, val |-> <<>>]

\* The JSON value of a curated "nyaa_id": a number, a string of digits, or
\* null / absent.
JInt(n) == [type |-> "int", n |-> n]

JStr(n) == [type |-> "str", n |-> n]

JNull == [type |-> "null", n |-> 0]

\* Python's truth value of such a value (the strings here are never empty).
Truthy(v) == IF v.type = "int" THEN v.n # 0 ELSE v.type = "str"

\* A curated torrent of an entry: {"nyaa_id": ..., "name": ...}; an absent
\* or empty name is <<>>.
Torrent(id, name) == [nyaa_id |-> id, name |-> name]

\* An entry of "mappings": keys is the set of keys present in the JSON object.
Entry(keys, id, name, fmt, year, aliases, also, torrents) ==
    [keys |-> keys, anilist_id |-> id, anime_name |-> name, anime_format |-> fmt,
     year |-> year, also_search |-> aliases, use_seadex_also |-> also,
     torrents |-> torrents]

\* dict.get(key, default) on an entry or a settings object.
Get(obj, key, default) == IF key \in obj.keys THEN obj[key] ELSE default

\* The value of "mappings": a JSON object (dict) or another JSON value (list).
DictTable(items) == [kind |-> "dict", items |-> items]

ListTable == [kind |-> "list", items |-> <<>>]

EmptyTable == DictTable(<<>>)

TableKeys(tbl) == {tbl.items[i][1] : i \in 1..Len(tbl.items)}

TableGet(tbl, pk) == tbl.items[CHOOSE i \in 1..Len(tbl.items) : tbl.items[i][1] = pk][2]

SettingsOf(keys, fallback) == [keys |-> keys, fallback_to_seadex |-> fallback]

\* The default of mapping_data.get('settings', {...}).
DefaultSettings == SettingsOf({"fallback_to_seadex", "priority"}, TRUE)

EmptySettings == SettingsOf({}, TRUE)

\* A JSON document: an object with optional "mappings"/"settings", or an array.
ObjectDoc(keys, tbl, settings) ==
    [kind |-> "object", keys |-> keys, mappings |-> tbl, settings |-> settings]

ArrayDoc == [kind |-> "array", keys |-> {}, mappings |-> EmptyTable, settings |-> EmptySettings]

SimpleEntry(id, aliases) ==
    Entry({"anilist_id", "anime_name", "also_search"}, id, <<"a">>, "TV", 0, aliases, FALSE, <<>>)

DocOne ==
    ObjectDoc({"mappings", "settings"},
              DictTable(<< <<(<<"a">>), SimpleEntry(1, <<Alias(<<"b">>)>>)>> >>),
              SettingsOf({"fallback_to_seadex"}, FALSE))

DocTwo ==
    ObjectDoc({"mappings"},
              DictTable(<< <<(<<"c">>), SimpleEntry(2, <<>>)>>,
                           <<(<<"C", "!">>), SimpleEntry(3, <<Alias(<<"a", " ", "b">>)>>)>> >>),
              EmptySettings)

\* An alias that is not a string: term.lower() raises while the index is built.
DocBadAlias ==
    ObjectDoc({"mappings"},
              DictTable(<< <<(<<"b">>), SimpleEntry(4, <<NotAString>>)>> >>),
              EmptySettings)

\* "mappings" is a list: self.mappings.items() raises.
DocListTable == ObjectDoc({"mappings"}, ListTable, EmptySettings)

\* create_default_mapping_file's document.
DefaultDoc ==
    ObjectDoc({"mappings", "settings"},
              DictTable(<< <<(<<"e", "x">>),
                             Entry({"anilist_id", "anime_name", "anime_format", "year",
                                    "also_search", "torrents"},
                                   12345, <<"E", "x">>, "TV", 2024,
                                   <<Alias(<<"e", "k", "s">>)>>, FALSE,
                                   <<Torrent(JInt(1234567), <<"S", "1">>)>>)>> >>),
              SettingsOf({"fallback_to_seadex", "priority", "remote_url",
                          "update_interval_hours"}, TRUE))

RemoteDocs == {DocOne, DocTwo, DocBadAlias, DocListTable, ArrayDoc}

\* What requests.get / response.json() can produce.
Responses ==
    {[kind |-> "neterr", doc |-> ArrayDoc], [kind |-> "badjson", doc |-> ArrayDoc]}
    \cup {[kind |-> "json", doc |-> d] : d \in RemoteDocs}

\* The local mapping file.
FileMissing == [st |-> "missing", doc |-> ArrayDoc]

FilePartial == [st |-> "partial", doc |-> ArrayDoc]

FileOf(d) == [st |-> "doc", doc |-> d]

\* ------------------------------------------------------------------------
\* The search index: an insertion-ordered dict term -> primary key
\* ------------------------------------------------------------------------

IndexTerms(idx) == {idx[i][1] : i \in 1..Len(idx)}

IndexGet(idx, term) == idx[CHOOSE i \in 1..Len(idx) : idx[i][1] = term][2]

\* self.search_index[term] = pk
IndexPut(idx, term, pk) ==
    IF term \in IndexTerms(idx)
    THEN [i \in 1..Len(idx) |-> IF idx[i][1] = term THEN <<term, pk>> ELSE idx[i]]
    ELSE Append(idx, <<term, pk>>)

RECURSIVE IndexAliases(_, _, _)
\* The inner loop of _build_search_index; stops at the first alias that is
\* not a string (normalising it raises).
IndexAliases(idx, pk, aliases) ==
    IF aliases = <<>> THEN [ok |-> TRUE, idx |-> idx]
    ELSE IF ~aliases[1].str THEN [ok |-> FALSE, idx |-> idx]
    ELSE IndexAliases(IndexPut(idx, NormalizeSearchTerm(aliases[1].val), pk), pk, Tail(aliases))

RECURSIVE IndexItems(_, _)
\* The outer loop of _build_search_index over the table's items.
IndexItems(idx, items) ==
    IF items = <<>> THEN [ok |-> TRUE, idx |-> idx]
    ELSE LET pk == items[1][1]
             r  == IndexAliases(IndexPut(idx, NormalizeSearchTerm(pk), pk), pk,
                                Get(items[1][2], "also_search", <<>>))
         IN IF r.ok THEN IndexItems(r.idx, Tail(items)) ELSE r

\* _build_search_index run to its end without interference: ok is FALSE when
\* it raised, idx is the index it left behind.
BuildSearchIndex(tbl) ==
    IF tbl.kind # "dict" THEN [ok |-> FALSE, idx |-> <<>>] ELSE IndexItems(<<>>, tbl.items)

\* ------------------------------------------------------------------------
\* Names of curated torrents (MappingService._parse_torrent_name)
\* ------------------------------------------------------------------------

\* re.match(r'\[([^\]]+)\]', name): the bracketed prefix, or 'Unknown'.
ReleaseGroupOf(name) ==
    LET closers == {j \in 1..Len(name) : name[j] = "]"}
    IN IF Len(name) >= 3 /\ name[1] = "[" /\ closers # {} /\ Min(closers) >= 3
       THEN SubSeq(name, 2, Min(closers) - 1)
       ELSE <<"U", "n", "k", "n", "o", "w", "n">>

\* The season patterns in order: Season\s*(\d+), S(\d+), s(\d+), all under
\* re.IGNORECASE.
SeasonOfName(name) ==
    OrElse(SearchLitNum(name, <<"s", "e", "a", "s", "o", "n">>, TRUE), SearchLitNum(name, <<"s">>, FALSE))

\* Where (\d+)\s*-\s*(\d+) matches: the position of the first number.
RangeDash(s, i) == SkipWs(s, RunEnd(s, i) + 1)

RangeSecond(s, i) == SkipWs(s, RangeDash(s, i) + 1)

RangeStarts(s) ==
    {i \in 1..Len(s) :
        /\ DigitAt(s, i)
        /\ RangeDash(s, i) <= Len(s)
        /\ s[RangeDash(s, i)] = "-"
        /\ DigitAt(s, RangeSecond(s, i))}

\* list(range(a, b + 1))
RangeList(a, b) == [k \in 1..(IF b >= a THEN b - a + 1 ELSE 0) |-> a + k - 1]

\* The episode range of a name: None, or Some(the list of its numbers).
RangeOfFirst(name, starts) ==
    IF starts = {} THEN None
    ELSE Some(RangeList(NumAt(name, Min(starts)), NumAt(name, RangeSecond(name, Min(starts)))))

RangeOfName(name) == RangeOfFirst(name, RangeStarts(name))

\* Ep\.?\s*(\d+)
EpDigits(s, i) == SkipWs(s, IF i + 2 <= Len(s) /\ s[i + 2] = "." THEN i + 3 ELSE i + 2)

EpStarts(s) == {i \in 1..Len(s) : LitAt(s, i, <<"e", "p">>) /\ DigitAt(s, EpDigits(s, i))}

EpOfFirst(s, starts) == IF starts = {} THEN None ELSE Some(NumAt(s, EpDigits(s, Min(starts))))

SearchEp(s) == EpOfFirst(s, EpStarts(s))

\* The single-episode patterns in order: E(\d+), Episode\s*(\d+), Ep\.?\s*(\d+).
EpisodeOfName(name) ==
    OrElse(SearchLitNum(name, <<"e">>, FALSE),
           OrElse(SearchLitNum(name, <<"e", "p", "i", "s", "o", "d", "e">>, TRUE), SearchEp(name)))

BatchWords == {<<"c", "o", "m", "p", "l", "e", "t", "e">>, <<"b", "a", "t", "c", "h">>, <<"f", "u", "l", "l">>}

SaysBatch(name) == \E w \in BatchWords : IsSubstring(w, Lower(name))

AssumedEpisodes == 12

\* The result of _parse_torrent_name from what its searches found: the
\* group, the season, the episode range, the single episode (looked for only
\* when there is no range) and whether the name has a whole-batch word.
ParsedName(group, season, range, single, batch_word) ==
    LET numbers == IF range # None THEN range[1] ELSE single
        batch == numbers = <<>> /\ batch_word
    IN [release_group |-> group,
        season |-> IF season # None THEN season[1] ELSE 1,
        seasons |-> season,
        episode |-> IF range # None THEN None ELSE single,
        episode_numbers |-> IF batch THEN RangeList(1, AssumedEpisodes) ELSE numbers,
        episode_count |-> IF batch THEN AssumedEpisodes ELSE Len(numbers),
        is_season_pack |-> range # None \/ batch]

\* MappingService._parse_torrent_name
ParseTorrentName(name) ==
    ParsedName(ReleaseGroupOf(name), SeasonOfName(name), RangeOfName(name),
               EpisodeOfName(name), SaysBatch(name))

\* ------------------------------------------------------------------------
\* File names of aggregation-source releases (EpisodeUtils, TorrentProcessor)
\* ------------------------------------------------------------------------

\* A (season, episode) pair of extract_episode_info; each is None or Some(n).
Pair(s, e) == [season |-> s, episode |-> e]

\* S(\d+)E(\d+)
SxEStarts(f) ==
    {i \in 1..Len(f) :
        /\ LitAt(f, i, <<"s">>) /\ DigitAt(f, i + 1)
        /\ LitAt(f, RunEnd(f, i + 1) + 1, <<"e">>)
        /\ DigitAt(f, RunEnd(f, i + 1) + 2)}

SxEOfFirst(f, starts) ==
    IF starts = {} THEN None
    ELSE Some(Pair(Some(NumAt(f, Min(starts) + 1)),
                   Some(NumAt(f, RunEnd(f, Min(starts) + 1) + 2))))

\* Season\s*(\d+).*?E(\d+): the positions of an E followed by a digit after
\* the season number that starts at k.
LaterE(f, k) == {p \in (RunEnd(f, k) + 1)..Len(f) : LitAt(f, p, <<"e">>) /\ DigitAt(f, p + 1)}

SeasonDigits(f, i) == NumStart(f, i, <<"s", "e", "a", "s", "o", "n">>, TRUE)

SeasonEStarts(f) ==
    {i \in 1..Len(f) :
        /\ LitAt(f, i, <<"s", "e", "a", "s", "o", "n">>)
        /\ DigitAt(f, SeasonDigits(f, i))
        /\ LaterE(f, SeasonDigits(f, i)) # {}}

SeasonEAt(f, k) == Some(Pair(Some(NumAt(f, k)), Some(NumAt(f, Min(LaterE(f, k)) + 1))))

SeasonEOfFirst(f, starts) ==
    IF starts = {} THEN None ELSE SeasonEAt(f, SeasonDigits(f, Min(starts)))

\* (\d+)x(\d+)
NxNStarts(f) ==
    {i \in 1..Len(f) :
        /\ DigitAt(f, i)
        /\ LitAt(f, RunEnd(f, i) + 1, <<"x">>)
        /\ DigitAt(f, RunEnd(f, i) + 2)}

NxNOfFirst(f, starts) ==
    IF starts = {} THEN None
    ELSE Some(Pair(Some(NumAt(f, Min(starts))), Some(NumAt(f, RunEnd(f, Min(starts)) + 2))))

\* S(\d+).*?(\d+): the digits after the season number, or, when there are
\* none, the last digit of a season number of two digits or more.
LaterDigits(f, k) == {p \in (RunEnd(f, k) + 1)..Len(f) : DigitAt(f, p)}

SNumStarts(f) ==
    {i \in 1..Len(f) :
        /\ LitAt(f, i, <<"s">>) /\ DigitAt(f, i + 1)
        /\ (LaterDigits(f, i + 1) # {} \/ RunEnd(f, i + 1) > i + 1)}

SNumAt(f, k, later, last) ==
    IF later # {} THEN Pair(Some(NumAt(f, k)), Some(NumAt(f, Min(later))))
    ELSE Pair(Some(ToInt(SubSeq(f, k, last - 1))), Some(DigitVal(f[last])))

SNumOfFirst(f, starts) ==
    IF starts = {} THEN None
    ELSE Some(SNumAt(f, Min(starts) + 1, LaterDigits(f, Min(starts) + 1),
                     RunEnd(f, Min(starts) + 1)))

\* (\d+)
AnyNumber(f) == NumOfFirst(f, {i \in 1..Len(f) : DigitAt(f, i)}, <<>>, FALSE)

\* A pattern with one group gives the episode only.
EpisodeOnly(e) == IF e = None THEN None ELSE Some(Pair(None, e))

\* The patterns of extract_episode_info with one group, in order.
OneGroup(f) ==
    OrElse(SearchLitNum(f, <<"e">>, FALSE),
           OrElse(SearchLitNum(f, <<"e", "p", "i", "s", "o", "d", "e">>, TRUE), OrElse(SearchEp(f), AnyNumber(f))))

\* The patterns of extract_episode_info with two groups, in order.
TwoGroups(f) ==
    OrElse(SxEOfFirst(f, SxEStarts(f)),
           OrElse(SeasonEOfFirst(f, SeasonEStarts(f)),
                  OrElse(NxNOfFirst(f, NxNStarts(f)), SNumOfFirst(f, SNumStarts(f)))))

Found(pair) == IF pair = None THEN Pair(None, None) ELSE pair[1]

\* EpisodeUtils.extract_episode_info: the first pattern that matches decides.
extract_episode_info(f) == Found(OrElse(TwoGroups(f), EpisodeOnly(OneGroup(f))))

\* season_episode_indicators of is_movie_torrent, searched in the lowered name.
HasEpisodeMarker(f) ==
    \/ LitNumStarts(f, <<"s">>, FALSE) # {}
    \/ LitNumStarts(f, <<"s", "e", "a", "s", "o", "n", " ">>, FALSE) # {}
    \/ LitNumStarts(f, <<"e">>, FALSE) # {}
    \/ LitNumStarts(f, <<"e", "p", "i", "s", "o", "d", "e", " ">>, FALSE) # {}
    \/ IsSubstring(<<"c", "o", "m", "p", "l", "e", "t", "e", " ", "s", "e", "r", "i", "e", "s">>, Lower(f))
    \/ IsSubstring(<<"s", "e", "a", "s", "o", "n", " ", "p", "a", "c", "k">>, Lower(f))

MovieWords ==
    {<<"m", "o", "v", "i", "e">>, <<"f", "i", "l", "m">>, <<"g", "e", "k", "i", "j", "o">>, <<"g", "e", "k", "i", "j", "o", "u">>, <<"g", "e", "k", "i", "j", "o", "u", "b", "a", "n">>, <<"t", "h", "e", "a", "t", "r", "i", "c", "a", "l">>, <<"c", "i", "n", "e", "m", "a">>,
     <<"f", "e", "a", "t", "u", "r", "e">>}

HasMovieWord(f) == \E w \in MovieWords : IsSubstring(w, Lower(f))

\* The file-name heuristics of is_movie_torrent alone, without the format.
is_movie_by_names(files, anime_format) ==
    /\ ~\E i \in 1..Len(files) : HasEpisodeMarker(files[i])
    /\ \E i \in 1..Len(files) : HasMovieWord(files[i])

\* TorrentProcessor.is_movie_torrent; anime_format is None or Some(format).
is_movie_torrent(files, anime_format) ==
    IF anime_format = Some("MOVIE") THEN TRUE
    ELSE IF \E i \in 1..Len(files) : HasEpisodeMarker(files[i]) THEN FALSE
    ELSE \E i \in 1..Len(files) : HasMovieWord(files[i])

\* A raw release of the aggregation source.  The url is given by its site
\* and by what follows "nyaa.si/view/" in it; groupedUrl is None (absent or
\* null), Some(<<>>) (empty) or Some(text); files are the names of the files.
Raw(site, tail, grouped, files) ==
    [site |-> site, tail |-> tail, groupedUrl |-> grouped, files |-> files,
     lengths |-> [i \in 1..Len(files) |-> 1],
     source_anilist_id |-> None]

RECURSIVE Sum(_)
Sum(numbers) == IF numbers = <<>> THEN 0 ELSE Head(numbers) + Sum(Tail(numbers))

RECURSIVE SetToList(_)
\* list(a set of small integers): CPython walks the table by hash, which for
\* distinct integers below 8 is ascending order.
SetToList(S) == IF S = {} THEN <<>> ELSE <<Min(S)>> \o SetToList(S \ {Min(S)})

\* "if episode_num:" / "if season_num:"
Positive(o) == o # None /\ o[1] # 0

\* The files of a release that carry an episode number, given what
\* extract_episode_info found in each file.
EpisodeFiles(infos) == {i \in 1..Len(infos) : Positive(infos[i].episode)}

episodes_found(infos) == {infos[i].episode[1] : i \in EpisodeFiles(infos)}

seasons_found(infos) ==
    {infos[i].season[1] : i \in {k \in EpisodeFiles(infos) : Positive(infos[k].season)}}

First(list) == IF list = <<>> THEN None ELSE Some(list[1])

\* Only an empty string counts as an empty groupedUrl.
GroupedEmptyString(raw) == raw.groupedUrl = Some(<<>>)

\* grouped_url == "" or grouped_url is None; an absent key reads as "".
GroupedEmpty(raw) == raw.groupedUrl = None \/ raw.groupedUrl = Some(<<>>)

\* The release process_seadex_torrents builds, lines 84-150, from what it
\* determined: is it a movie, is it a season pack, and the seasons and
\* episodes found in its files.
Processed(raw, anime_format, is_movie, is_season_pack, infos, seasons, episodes) ==
    [nyaa_id |-> JInt(NumAt(raw.tail, 1)),
     url |-> NumAt(raw.tail, 1),
     release_group |-> <<>>,
     is_season_pack |-> is_season_pack,
     is_movie |-> is_movie,
     anime_format |-> anime_format,
     episode_count |-> IF is_movie THEN Len(raw.files) ELSE Cardinality(EpisodeFiles(infos)),
     total_size |-> Sum(raw.lengths),
     seasons |-> seasons,
     episode_numbers |-> episodes,
     season |-> IF is_movie THEN None
                ELSE IF seasons # <<>> THEN First(seasons) ELSE Some(1),
     episode |-> IF is_movie \/ is_season_pack THEN None ELSE First(episodes),
     source_anilist_id |-> raw.source_anilist_id,
     is_custom_mapping |-> FALSE]

\* Lines 101-137: the files of a movie are counted and not looked into.
Classified(raw, anime_format, is_movie, infos) ==
    Processed(raw, anime_format, is_movie, GroupedEmpty(raw) /\ ~is_movie, infos,
              IF is_movie THEN <<>> ELSE SetToList(seasons_found(infos)),
              IF is_movie THEN <<>> ELSE SetToList(episodes_found(infos)))

\* One iteration of process_seadex_torrents for a nyaa release.
ProcessOne(raw, anime_format) ==
    Classified(raw, anime_format, is_movie_torrent(raw.files, anime_format),
               [i \in 1..Len(raw.files) |-> extract_episode_info(raw.files[i])])

\* "nyaa.si/view/" in url, and nyaa.si/view/(\d+) matches.
IsNyaa(raw) == raw.site = "nyaa" /\ DigitAt(raw.tail, 1)

\* TorrentProcessor.process_seadex_torrents: the season and episode filters
\* it is given are never consulted (should_include = True).
process_seadex_torrents(torrents, season_filter, episode_filter, anime_format) ==
    LET kept == SelectSeq(torrents, IsNyaa)
    IN [i \in 1..Len(kept) |-> ProcessOne(kept[i], anime_format)]

\* "if torrent.get('nyaa_id') and torrent.get('name')"
Usable(torrent) == Truthy(torrent.nyaa_id) /\ torrent.name # <<>>

\* The synthetic release of a curated torrent, lines 192-213.
CustomRelease(torrent, anime_format, parsed) ==
    [nyaa_id |-> torrent.nyaa_id,
     url |-> torrent.nyaa_id.n,
     release_group |-> parsed.release_group,
     is_season_pack |-> parsed.is_season_pack,
     is_movie |-> anime_format = "MOVIE",
     anime_format |-> Some(anime_format),
     episode_count |-> parsed.episode_count,
     total_size |-> 0,
     seasons |-> parsed.seasons,
     episode_numbers |-> parsed.episode_numbers,
     season |-> Some(parsed.season),
     episode |-> parsed.episode,
     source_anilist_id |-> None,
     is_custom_mapping |-> TRUE]

\* One iteration of get_custom_torrents.
CustomOne(torrent, anime_format) ==
    CustomRelease(torrent, anime_format, ParseTorrentName(torrent.name))

\* MappingService.get_custom_torrents
get_custom_torrents(mapping) ==
    LET kept == SelectSeq(Get(mapping, "torrents", <<>>), Usable)
    IN [i \in 1..Len(kept) |-> CustomOne(kept[i], Get(mapping, "anime_format", "TV"))]

\* MappingService.should_use_seadex; mapping is None or Some(entry), and an
\* entry without keys is an empty dict, which Python takes as false.
should_use_seadex(mapping, svcSettings) ==
    IF mapping = None \/ mapping[1].keys = {}
    THEN Get(svcSettings, "fallback_to_seadex", TRUE)
    ELSE Get(mapping[1], "use_seadex_also", FALSE)

\* A season check without the season-pack exemption.
SeasonKeepsExact(torrent, season) == ~Positive(season) \/ torrent.season = season

\* The season check of _filter_torrents for one release.
SeasonKeeps(torrent, season) ==
    \/ ~Positive(season)
    \/ torrent.season = season
    \/ torrent.is_season_pack /\ season[1] \in SeqToSet(torrent.seasons)

\* The episode check of _filter_torrents for one release.
EpisodeKeeps(torrent, episode) ==
    \/ ~Positive(episode)
    \/ torrent.episode_numbers = <<>>
    \/ episode[1] \in SeqToSet(torrent.episode_numbers)

\* SearchService._filter_torrents
filter_torrents(torrents, season, episode) ==
    LET Keeps(torrent) == SeasonKeeps(torrent, season) /\ EpisodeKeeps(torrent, episode)
    IN IF ~Positive(season) /\ ~Positive(episode) THEN torrents
       ELSE SelectSeq(torrents, Keeps)

\* ------------------------------------------------------------------------
\* QueryProcessor.process_search_query
\* ------------------------------------------------------------------------

DefaultQuery == <<"S", "p", "i", "r", "i", "t", "e", "d", " ", "A", "w", "a", "y">>

\* The start of the run of whitespace that ends at j (j + 1 when there is none).
WsStart(s, j) == Min({i \in 1..(j + 1) : \A k \in i..j : s[k] \in WhiteSpace})

\* query.split(' : ')[0]
BeforeColon(s) ==
    LET cuts == {i \in 1..(Len(s) - 2) : SubSeq(s, i, i + 2) = <<" ", ":", " ">>}
    IN IF cuts = {} THEN s ELSE SubSeq(s, 1, Min(cuts) - 1)

\* re.sub(r'\s*\(\d{4}\)$', '', s)
DropYearParen(s) ==
    LET n == Len(s)
    IN IF /\ n >= 6 /\ s[n] = ")" /\ s[n - 5] = "("
          /\ \A k \in (n - 4)..(n - 1) : IsDigit(s[k])
       THEN SubSeq(s, 1, WsStart(s, n - 6) - 1)
       ELSE s

\* re.sub(r'\s+\d{4}$', '', s)
DropYear(s) ==
    LET n == Len(s)
    IN IF /\ n >= 5 /\ s[n - 4] \in WhiteSpace
          /\ \A k \in (n - 3)..n : IsDigit(s[k])
       THEN SubSeq(s, 1, WsStart(s, n - 4) - 1)
       ELSE s

\* The start of the run of digits that ends the string (Len + 1 when none).
TailDigits(s) == Min({i \in 1..(Len(s) + 1) : \A k \in i..Len(s) : IsDigit(s[k])})

\* re.sub(r'\s+ lit \d+$', ...) and re.sub(r'\s+ lit \s*\d+$', ...), IGNORECASE
DropTail(s, lit, ws) ==
    LET d == TailDigits(s)
        e == IF ws THEN WsStart(s, d - 1) - 1 ELSE d - 1
        b == e - Len(lit)
    IN IF /\ d <= Len(s) /\ b >= 1
          /\ LitAt(s, b + 1, lit)
          /\ s[b] \in WhiteSpace
       THEN SubSeq(s, 1, WsStart(s, b) - 1)
       ELSE s

\* QueryProcessor.process_search_query(query_param)
process_search_query(query_param) ==
    IF query_param = <<>> THEN DefaultQuery
    ELSE LET q1 == BeforeColon(Strip(query_param))
             q2 == DropYear(DropYearParen(q1))
             q3 == DropTail(DropTail(q2, <<"s">>, FALSE), <<"s", "e", "a", "s", "o", "n">>, TRUE)
             q4 == Strip(DropTail(DropTail(q3, <<"e">>, FALSE), <<"e", "p", "i", "s", "o", "d", "e">>, TRUE))
         IN IF q4 = <<>> THEN DefaultQuery ELSE q4

\* ------------------------------------------------------------------------
\* The collaborators of a search: what the identity resolver answers and
\* what the aggregation source holds.
\* ------------------------------------------------------------------------

\* The 5-tuple of AniListService.get_anilist_id_with_relations.
AniList(id, name, ids, format, year) ==
    [id |-> id, name |-> name, ids |-> ids, format |-> format, year |-> year]

NotFound == AniList(None, None, <<>>, None, None)

\* One edge of the relations of a candidate: relationType, and the id and
\* the format of its node.
Edge(type, id, format) == [type |-> type, id |-> id, format |-> format]

\* One candidate of the media list: id, romaji title, format and start year
\* (None for a JSON null), and the edges of its relations.
Media(id, title, format, year, edges) ==
    [id |-> id, title |-> title, format |-> format, year |-> year, edges |-> edges]

\* A series with a sequel season, a side-story film, the same sequel again,
\* an edge back to itself and a sequel OVA.
MediaSeries ==
    Media(10, <<"a">>, Some("TV"), Some(2020),
          <<Edge("SEQUEL", 20, "TV"), Edge("SIDE_STORY", 30, "MOVIE"), Edge("SEQUEL", 20, "TV"),
            Edge("PREQUEL", 10, "TV"), Edge("SEQUEL", 30, "OVA")>>)

\* A film with an alternative film, a sequel series and an adaptation.
MediaFilm ==
    Media(30, <<"m">>, Some("MOVIE"), Some(1988),
          <<Edge("SEQUEL", 20, "TV"), Edge("ALTERNATIVE", 10, "MOVIE"),
            Edge("ADAPTATION", 20, "MOVIE"), Edge("SIDE_STORY", 30, "MOVIE")>>)

\* A candidate without format and year, whose prequel is a film.
MediaBare == Media(20, <<"o">>, None, None, <<Edge("PREQUEL", 30, "MOVIE"), Edge("OTHER", 10, "TV")>>)

\* The media lists graphql.anilist.co may answer with.
MediaLists ==
    {<<MediaSeries>>, <<MediaFilm>>, <<MediaBare>>, <<MediaSeries, MediaFilm>>}

\* The titles for which a film is preferred, line 78.
WellKnownMovies == {<<"a", "k", "i", "r", "a">>, <<"s", "p", "i", "r", "i", "t", "e", "d", " ", "a", "w", "a", "y">>, <<"y", "o", "u", "r", " ", "n", "a", "m", "e">>, <<"w", "e", "a", "t", "h", "e", "r", "i", "n", "g", " ", "w", "i", "t", "h", " ", "y", "o", "u">>}

\* media_type of every request: the handlers pass "ANIME" or leave the
\* default "ANIME" of perform_search.
SearchType == "ANIME"

\* The positions of the candidates whose format is MOVIE.
MoviePlaces(media_list) == {i \in 1..Len(media_list) : media_list[i].format = Some("MOVIE")}

\* The first candidate, whatever its format.
FirstCandidate(media_list, anime_name, search_type) == media_list[1]

\* Lines 74-94: the first MOVIE candidate for a well-known film title or
\* when search_type is "ANIME", the first candidate otherwise or when there
\* is no MOVIE candidate.
MainAnime(media_list, anime_name, search_type) ==
    IF (Lower(anime_name) \in WellKnownMovies \/ search_type = "ANIME")
          /\ MoviePlaces(media_list) # {}
    THEN media_list[Min(MoviePlaces(media_list))]
    ELSE media_list[1]

\* The rule of a series applied whatever the main format is.
RelationKeptAsSeries(main_format, edge) ==
    edge.type \in {"SEQUEL", "PREQUEL"} /\ edge.format \in {"TV", "MOVIE"}

\* Lines 110-128: the relation is followed.
RelationKept(main_format, edge) ==
    IF main_format = Some("MOVIE")
    THEN edge.type \in {"SEQUEL", "PREQUEL", "SIDE_STORY", "ALTERNATIVE"} /\ edge.format = "MOVIE"
    ELSE edge.type \in {"SEQUEL", "PREQUEL"} /\ edge.format \in {"TV", "MOVIE"}

RECURSIVE Related(_, _, _)
\* Lines 104-128: the ids of the edges followed are appended in order, each
\* once ("related_id and related_id not in all_related_ids").
Related(ids, main_format, edges) ==
    IF edges = <<>> THEN ids
    ELSE Related(IF /\ RelationKept(main_format, Head(edges))
                    /\ Head(edges).id # 0
                    /\ Head(edges).id \notin SeqToSet(ids)
                 THEN Append(ids, Head(edges).id) ELSE ids,
                 main_format, Tail(edges))

\* Lines 96-131: what is returned for the main entry chosen.
Resolved(main_anime) ==
    AniList(Some(main_anime.id), Some(main_anime.title),
            Related(<<main_anime.id>>, main_anime.format, main_anime.edges),
            main_anime.format, main_anime.year)

\* What the resolver makes of a series with its sequel season.
SeriesFound == Resolved(MediaSeries)

\* What graphql.anilist.co does with the request: the connection or the
\* status fails ("neterr", "http"), the body is not the JSON expected
\* ("badjson"), the media list is empty ("empty"), or candidates come back.
\* media is the media list in the body.
Upstream(kind, media) == [kind |-> kind, media |-> media]

UpstreamFailures == {"neterr", "http", "badjson", "empty"}

\* An error status may come with a body that holds candidates.
Upstreams ==
    {Upstream(kind, <<>>) : kind \in {"neterr", "badjson", "empty"}}
        \cup {Upstream("http", <<MediaSeries>>)}
        \cup {Upstream("found", media_list) : media_list \in MediaLists}

\* The candidates in the body decide, whatever the status.
resolve_from_body(anime_name, search_type, upstream) ==
    IF upstream.media = <<>> THEN NotFound
    ELSE Resolved(MainAnime(upstream.media, anime_name, search_type))

\* AniListService.get_anilist_id_with_relations: every exception and an
\* empty media list give the empty 5-tuple.
get_anilist_id_with_relations(anime_name, search_type, upstream) ==
    IF upstream.kind \in UpstreamFailures THEN NotFound
    ELSE Resolved(MainAnime(upstream.media, anime_name, search_type))

\* A two-season pack, a single episode, a film, and releases that are not
\* usable nyaa links.
RawPack == Raw("nyaa", <<"1">>, Some(<<>>), <<<<"S", "1", "E", "1">>, <<"S", "2", "E", "1">>>>)

RawEpisode == Raw("nyaa", <<"2">>, Some(<<"g">>), <<<<"S", "1", "E", "5">>>>)

RawFilm == Raw("nyaa", <<"3">>, None, <<<<"f", "i", "l", "m">>>>)

RawElsewhere == Raw("other", <<>>, None, <<<<"S", "1", "E", "1">>>>)

RawNoId == Raw("nyaa", <<"x">>, None, <<<<"S", "1", "E", "1">>>>)

\* A release without the groupedUrl key, of one episode file.
RawAbsent == Raw("nyaa", <<"6">>, None, <<<<"S", "1", "E", "2">>>>)

\* A release of one episode whose files name a later season and episode
\* before an earlier one.
RawMixed == Raw("nyaa", <<"7">>, Some(<<"g">>), <<<<"S", "2", "E", "3">>, <<"S", "1", "E", "2">>>>)

AniListIds == {10, 20, 30}

\* One entry of "items" in the answer of releases.moe: an object with its
\* expanded trs, or something that is not an object (ok is FALSE).
Item(trs) == [ok |-> TRUE, trs |-> trs]

BadItem == [ok |-> FALSE, trs |-> <<>>]

\* The answer of releases.moe for one id: "ok" is status 200 with a JSON
\* body; "http" another status; "neterr" requests.get raises; "badjson"
\* res.json() raises.
Reply(kind, items) == [kind |-> kind, items |-> items]

ReplyFailures == {"http", "neterr", "badjson"}

\* What releases.moe answers per id.
NoCatalog == [id \in AniListIds |-> Reply("ok", <<>>)]

Catalogs ==
    {NoCatalog,
     [id \in AniListIds |->
        IF id = 10 THEN Reply("ok", <<Item(<<RawPack, RawElsewhere>>), Item(<<RawEpisode>>)>>)
        ELSE Reply("ok", <<Item(<<RawFilm>>)>>)],
     [id \in AniListIds |->
        IF id = 10 THEN Reply("ok", <<Item(<<RawEpisode>>)>>)
        ELSE Reply("ok", <<Item(<<RawNoId, RawAbsent, RawMixed>>)>>)],
     [id \in AniListIds |->
        IF id = 10 THEN Reply("http", <<Item(<<RawPack>>)>>)
        ELSE IF id = 20 THEN Reply("ok", <<Item(<<RawEpisode>>)>>)
        ELSE Reply("badjson", <<>>)],
     [id \in AniListIds |->
        IF id = 10 THEN Reply("ok", <<Item(<<RawPack>>), BadItem, Item(<<RawEpisode>>)>>)
        ELSE IF id = 20 THEN Reply("neterr", <<>>)
        ELSE Reply("ok", <<Item(<<RawFilm>>)>>)]}

RECURSIVE ItemsTorrents(_)
\* Lines 32-37: the trs of the items, in order, up to an item that raises.
ItemsTorrents(items) ==
    IF items = <<>> \/ ~Head(items).ok THEN <<>>
    ELSE Head(items).trs \o ItemsTorrents(Tail(items))

\* Lines 18-41 for one id: nothing from a request that fails, and each
\* release marked with the id it was fetched for.
Tagged(trs, id) == [i \in 1..Len(trs) |-> [trs[i] EXCEPT !.source_anilist_id = Some(id)]]

ReleasesOf(id, reply) ==
    IF reply.kind \in ReplyFailures THEN <<>> ELSE Tagged(ItemsTorrents(reply.items), id)

RECURSIVE get_releases_until_failure(_, _)
\* A loop over the ids that gives up at the first request that fails.
get_releases_until_failure(anilist_ids, catalog) ==
    IF anilist_ids = <<>> \/ catalog[Head(anilist_ids)].kind \in ReplyFailures THEN <<>>
    ELSE ReleasesOf(Head(anilist_ids), catalog[Head(anilist_ids)])
            \o get_releases_until_failure(Tail(anilist_ids), catalog)

RECURSIVE get_all_releases(_, _)
\* SeadexService.get_all_releases
get_all_releases(anilist_ids, catalog) ==
    IF anilist_ids = <<>> THEN <<>>
    ELSE ReleasesOf(Head(anilist_ids), catalog[Head(anilist_ids)])
            \o get_all_releases(Tail(anilist_ids), catalog)

\* ------------------------------------------------------------------------
\* SearchService.perform_search
\* ------------------------------------------------------------------------

SearchResult(id, name, torrents, format, year) ==
    [id |-> id, name |-> name, torrents |-> torrents, format |-> format, year |-> year]

NoResult == SearchResult(None, None, <<>>, None, None)

\* "if not anime_format" / "if not year"
NoFormat(f) == f = None \/ f = Some("")

\* Lines 61-67: the releases of the aggregation source whose nyaa_id is not
\* among the synthetic releases' are appended.
Merge(custom_torrents, processed_seadex) ==
    LET custom_nyaa_ids == {custom_torrents[i].nyaa_id : i \in 1..Len(custom_torrents)}
        IsNew(torrent) == torrent.nyaa_id \notin custom_nyaa_ids
    IN custom_torrents \o SelectSeq(processed_seadex, IsNew)

\* Lines 73-75
MarkMovies(torrents, anime_format) ==
    IF anime_format = Some("MOVIE")
    THEN [i \in 1..Len(torrents) |-> [torrents[i] EXCEPT !.is_movie = TRUE]]
    ELSE torrents

\* ------------------------------------------------------------------------
\* State
\* ------------------------------------------------------------------------

VARIABLES
    mappings,       \* MappingService.mappings
    settings,       \* MappingService.settings
    search_index,   \* MappingService.search_index
    local_file,     \* the file at mapping_file_path
    last_update,    \* MappingService.last_update: None or Some(time)
    now,            \* the clock read by datetime.now()
    pc,             \* where each thread stands
    loc,            \* the locals of each writing thread (mapping_data, loop state)
    rd,             \* the locals of the thread running find_mapping
    ops,            \* operations started so far
    mode,           \* "conc": threads interleave freely; "solo": one operation at a time
    pre,            \* history (solo): table, settings and index when the operation began
    req             \* the search request being served (search pipeline)

vars == <<mappings, settings, search_index, local_file, last_update, now, pc, loc, rd,
          ops, mode, pre, req>>

svcVars == <<mappings, settings, search_index, local_file, last_update, now, pc, loc, rd,
             ops, mode, pre>>

\* The scheduled update thread and a forced update run download_remote_mapping.
Refreshers == {"sched", "force"}

\* reload_mappings runs load_mappings.
Writers == Refreshers \cup {"reload"}

Threads == Writers \cup {"search"}

Rest == {"idle", "ok", "failed", "done", "raised"}

InProgress(t) == pc[t] \notin Rest

Queries == {<<"a">>, <<"c">>, <<"x", "c", "x">>}

BlankLoc == [doc |-> ArrayDoc, items |-> <<>>, i |-> 0, j |-> 0]

BlankRd ==
    [query |-> <<>>, nq |-> <<>>, idx |-> <<>>, live |-> FALSE, dirty |-> FALSE,
     pk |-> <<>>, tbl |-> EmptyTable, res |-> None]

Snapshot == [mappings |-> mappings, settings |-> settings, search_index |-> search_index]

\* ------------------------------------------------------------------------
\* The service's operations run alone, start to end (construction)
\* ------------------------------------------------------------------------

Svc(m, s, idx, f, lu) ==
    [mappings |-> m, settings |-> s, search_index |-> idx, local_file |-> f, last_update |-> lu]

\* download_remote_mapping: save is "ok", "openfail" or "writefail".
DownloadRemoteMapping(svc, resp, save) ==
    IF resp.kind # "json" \/ save = "openfail" THEN [ok |-> FALSE, svc |-> svc]
    ELSE IF save = "writefail" THEN [ok |-> FALSE, svc |-> [svc EXCEPT !.local_file = FilePartial]]
    ELSE IF resp.doc.kind # "object"
    THEN [ok |-> FALSE, svc |-> [svc EXCEPT !.local_file = FileOf(resp.doc)]]
    ELSE LET m == Get(resp.doc, "mappings", EmptyTable)
             b == BuildSearchIndex(m)
             s == Svc(m, Get(resp.doc, "settings", DefaultSettings), b.idx,
                      FileOf(resp.doc), svc.last_update)
         IN IF b.ok THEN [ok |-> TRUE, svc |-> [s EXCEPT !.last_update = Some(0)]]
            ELSE [ok |-> FALSE, svc |-> s]

\* load_mappings.
LoadMappings(svc) ==
    LET cleared == Svc(EmptyTable, EmptySettings, <<>>, svc.local_file, svc.last_update)
        d == svc.local_file.doc
        m == Get(d, "mappings", EmptyTable)
        b == BuildSearchIndex(m)
    IN IF svc.local_file.st = "missing" THEN svc
       ELSE IF svc.local_file.st = "partial" \/ d.kind # "object" \/ ~b.ok THEN cleared
       ELSE Svc(m, Get(d, "settings", DefaultSettings), b.idx, svc.local_file, svc.last_update)

\* initialize_mappings, from the state __init__ sets and the file found on disk.
InitializeMappings(file0, resp, save, created) ==
    LET r == DownloadRemoteMapping(Svc(EmptyTable, EmptySettings, <<>>, file0, None), resp, save)
    IN IF r.ok THEN r.svc
       ELSE IF r.svc.local_file.st # "missing" THEN LoadMappings(r.svc)
       ELSE LoadMappings([r.svc EXCEPT !.local_file =
                             IF created THEN FileOf(DefaultDoc) ELSE FileMissing])

\* The states construction can end in, over what the remote source answers,
\* whether saving works and whether an earlier run left a local file.
Constructed ==
    {InitializeMappings(f, resp, "ok", created) :
        f \in {FileMissing, FileOf(DocTwo)},
        resp \in {r \in Responses : r.kind = "neterr" \/ r.doc = DocOne},
        created \in BOOLEAN}

\* No request: the blank request record.
NoReq ==
    [pc |-> "none", t |-> "", q |-> <<>>, cat |-> "", response |-> "",
     query |-> <<>>, season |-> None, episode |-> None, mapping |-> None,
     result |-> NoResult, custom |-> <<>>, anilist_ids |-> <<>>, raw |-> <<>>,
     processed |-> <<>>, merged |-> <<>>, resolver_called |-> FALSE,
     seadex_called |-> FALSE, upstream |-> "", title |-> <<>>, catalog |-> NoCatalog,
     site |-> <<>>, media |-> <<>>, anilist |-> NotFound,
     answer |-> [kind |-> "", items |-> <<>>, force_anime_category |-> FALSE]]

InitSvc ==
    /\ \E svc \in Constructed :
          /\ mappings = svc.mappings
          /\ settings = svc.settings
          /\ search_index = svc.search_index
          /\ local_file = svc.local_file
          /\ last_update = svc.last_update
    /\ now = 1
    /\ pc = [t \in Threads |-> "idle"]
    /\ loc = [t \in Writers |-> BlankLoc]
    /\ rd = BlankRd
    /\ ops = 0
    /\ pre = Snapshot

Init == InitSvc /\ mode = "conc" /\ req = NoReq

InitSolo == InitSvc /\ mode = "solo" /\ req = NoReq

\* ------------------------------------------------------------------------
\* download_remote_mapping and load_mappings, one step per statement.  No
\* lock is taken anywhere in MappingService: every thread may take its next
\* step at any time.
\* ------------------------------------------------------------------------

\* Thread t moves to label with locals l; the locals are dropped when the
\* operation is over.
Step(t, label, l) ==
    /\ pc' = [pc EXCEPT ![t] = label]
    /\ loc' = IF t \in Writers
              THEN [loc EXCEPT ![t] = IF label \in Rest THEN BlankLoc ELSE l]
              ELSE loc

\* An exception that is not caught leaves the operation and ends its thread.
RaiseOut(t) == Step(t, "crashed", BlankLoc)

\* An exception inside the try block: download_remote_mapping returns False,
\* load_mappings runs its handler that clears the three fields.
Raise(t) == Step(t, IF t = "reload" THEN "exc_mappings" ELSE "failed", BlankLoc)

\* An operation begins.  In solo mode it begins only when every thread is
\* at rest, and the state it finds is noted.
Begin(t) ==
    /\ pc[t] \in Rest
    /\ ops < MaxOps
    /\ mode = "solo" => \A u \in Threads : ~InProgress(u)
    /\ ops' = ops + 1
    /\ pre' = IF mode = "solo" THEN Snapshot ELSE pre

\* update_loop wakes up / force_update is called: download_remote_mapping
\* runs requests.get, raise_for_status and response.json(), which touch no
\* shared field.
StartRefresh(t) ==
    /\ t \in Refreshers
    /\ Begin(t)
    /\ \E resp \in Responses :
          IF resp.kind # "json" THEN Raise(t)
          ELSE Step(t, "save_open", [BlankLoc EXCEPT !.doc = resp.doc])
    /\ UNCHANGED <<mappings, settings, search_index, local_file, last_update, now, rd, mode, req>>

\* open(self.mapping_file_path, 'w') truncates the file, or raises.
SaveOpen(t) ==
    /\ pc[t] = "save_open"
    /\ \/ /\ local_file' = FilePartial
          /\ Step(t, "save_write", loc[t])
       \/ /\ Raise(t)
          /\ UNCHANGED local_file
    /\ UNCHANGED <<mappings, settings, search_index, last_update, now, rd, ops, mode, pre, req>>

\* json.dump(mapping_data, f) writes the document, or raises part-way.
SaveWrite(t) ==
    /\ pc[t] = "save_write"
    /\ \/ /\ local_file' = FileOf(loc[t].doc)
          /\ Step(t, "set_mappings", loc[t])
       \/ /\ Raise(t)
          /\ UNCHANGED local_file
    /\ UNCHANGED <<mappings, settings, search_index, last_update, now, rd, ops, mode, pre, req>>

\* self.mappings = mapping_data.get('mappings', {})
SetMappings(t) ==
    /\ pc[t] = "set_mappings"
    /\ IF loc[t].doc.kind # "object"
       THEN Raise(t) /\ UNCHANGED mappings
       ELSE /\ mappings' = Get(loc[t].doc, "mappings", EmptyTable)
            /\ Step(t, "set_settings", loc[t])
    /\ UNCHANGED <<settings, search_index, local_file, last_update, now, rd, ops, mode, pre, req>>

\* self.settings = mapping_data.get('settings', {...})
SetSettings(t) ==
    /\ pc[t] = "set_settings"
    /\ settings' = Get(loc[t].doc, "settings", DefaultSettings)
    /\ Step(t, "reset_index", loc[t])
    /\ UNCHANGED <<mappings, search_index, local_file, last_update, now, rd, ops, mode, pre, req>>

\* A new dict replaces self.search_index: a loop over the old one is no
\* longer touched by later insertions.
NewIndexObject ==
    /\ search_index' = <<>>
    /\ rd' = [rd EXCEPT !.live = FALSE]

\* self.search_index[term] = pk; a thread iterating the same dict object
\* will find its size changed when the key is new.
InsertTerm(term, pk) ==
    /\ search_index' = IndexPut(search_index, term, pk)
    /\ rd' = IF pc["search"] = "fm_scan" /\ rd.live /\ term \notin IndexTerms(search_index)
             THEN [rd EXCEPT !.dirty = TRUE] ELSE rd

\* _build_search_index: self.search_index = {}
ResetIndex(t) ==
    /\ pc[t] = "reset_index"
    /\ NewIndexObject
    /\ Step(t, "iter_start", loc[t])
    /\ UNCHANGED <<mappings, settings, local_file, last_update, now, ops, mode, pre, req>>

\* _build_search_index: self.mappings.items() of the table of that moment.
IterStart(t) ==
    /\ pc[t] = "iter_start"
    /\ IF mappings.kind # "dict"
       THEN Raise(t)
       ELSE Step(t, "loop_key", [loc[t] EXCEPT !.items = mappings.items, !.i = 1])
    /\ UNCHANGED <<mappings, settings, search_index, local_file, last_update, now, rd,
                   ops, mode, pre, req>>

\* _build_search_index: the next primary key is indexed, or the loop ends.
LoopKey(t) ==
    /\ pc[t] = "loop_key"
    /\ IF loc[t].i > Len(loc[t].items)
       THEN /\ Step(t, IF t = "reload" THEN "done" ELSE "stamp", BlankLoc)
            /\ UNCHANGED <<search_index, rd>>
       ELSE LET pk == loc[t].items[loc[t].i][1]
            IN /\ InsertTerm(NormalizeSearchTerm(pk), pk)
               /\ Step(t, "loop_alt", [loc[t] EXCEPT !.j = 1])
    /\ UNCHANGED <<mappings, settings, local_file, last_update, now, ops, mode, pre, req>>

\* _build_search_index: the next alias of the current entry is indexed.
LoopAlt(t) ==
    /\ pc[t] = "loop_alt"
    /\ LET item == loc[t].items[loc[t].i]
           aliases == Get(item[2], "also_search", <<>>)
       IN IF loc[t].j > Len(aliases)
          THEN /\ Step(t, "loop_key", [loc[t] EXCEPT !.i = @ + 1, !.j = 0])
               /\ UNCHANGED <<search_index, rd>>
          ELSE IF ~aliases[loc[t].j].str
          THEN Raise(t) /\ UNCHANGED <<search_index, rd>>
          ELSE /\ InsertTerm(NormalizeSearchTerm(aliases[loc[t].j].val), item[1])
               /\ Step(t, "loop_alt", [loc[t] EXCEPT !.j = @ + 1])
    /\ UNCHANGED <<mappings, settings, local_file, last_update, now, ops, mode, pre, req>>

\* self.last_update = datetime.now(); return True
Stamp(t) ==
    /\ pc[t] = "stamp"
    /\ last_update' = Some(now)
    /\ now' = now + 1
    /\ Step(t, "ok", BlankLoc)
    /\ UNCHANGED <<mappings, settings, search_index, local_file, rd, ops, mode, pre, req>>

\* reload_mappings is called: load_mappings checks os.path.exists.
StartReload ==
    /\ Begin("reload")
    /\ Step("reload", IF local_file.st = "missing" THEN "done" ELSE "load", BlankLoc)
    /\ UNCHANGED <<mappings, settings, search_index, local_file, last_update, now, rd, mode, req>>

\* open(...) and json.load(f)
LoadFile ==
    /\ pc["reload"] = "load"
    /\ IF local_file.st # "doc"
       THEN Raise("reload")
       ELSE Step("reload", "set_mappings", [BlankLoc EXCEPT !.doc = local_file.doc])
    /\ UNCHANGED <<mappings, settings, search_index, local_file, last_update, now, rd,
                   ops, mode, pre, req>>

\* except: self.mappings = {}
ExcMappings ==
    /\ pc["reload"] = "exc_mappings"
    /\ mappings' = EmptyTable
    /\ Step("reload", "exc_settings", BlankLoc)
    /\ UNCHANGED <<settings, search_index, local_file, last_update, now, rd, ops, mode, pre, req>>

\* except: self.settings = {}
ExcSettings ==
    /\ pc["reload"] = "exc_settings"
    /\ settings' = EmptySettings
    /\ Step("reload", "exc_index", BlankLoc)
    /\ UNCHANGED <<mappings, search_index, local_file, last_update, now, rd, ops, mode, pre, req>>

\* A handler that leaves the index as the failed load left it.
ExcIndexKept ==
    /\ pc["reload"] = "exc_index"
    /\ Step("reload", "done", BlankLoc)
    /\ UNCHANGED <<mappings, settings, search_index, rd, local_file, last_update, now, ops,
                   mode, pre, req>>

\* except: self.search_index = {}
ExcIndex ==
    /\ pc["reload"] = "exc_index"
    /\ NewIndexObject
    /\ Step("reload", "done", BlankLoc)
    /\ UNCHANGED <<mappings, settings, local_file, last_update, now, ops, mode, pre, req>>

\* ------------------------------------------------------------------------
\* find_mapping, one step per read of the shared fields
\* ------------------------------------------------------------------------

\* The first indexed term (in the dict's order) that contains the query or
\* is contained in it: the positions of find_mapping's second loop.
PartialMatches(idx, nq) ==
    {i \in 1..Len(idx) : IsSubstring(idx[i][1], nq) \/ IsSubstring(nq, idx[i][1])}

\* find_mapping run on one table and one index, without interference: the
\* entry found, as Some(entry), or None.  A primary key of the index that
\* the table lacks is a KeyError: raised is TRUE.
FindMappingIn(tbl, idx, query) ==
    LET nq == NormalizeSearchTerm(query)
        hit == IF nq \in IndexTerms(idx) THEN Some(IndexGet(idx, nq))
               ELSE IF PartialMatches(idx, nq) # {}
               THEN Some(idx[Min(PartialMatches(idx, nq))][2])
               ELSE None
    IN IF hit = None THEN [raised |-> FALSE, mapping |-> None]
       ELSE IF tbl.kind = "dict" /\ hit[1] \in TableKeys(tbl)
       THEN [raised |-> FALSE, mapping |-> Some(TableGet(tbl, hit[1]))]
       ELSE [raised |-> TRUE, mapping |-> None]

\* A search request reaches find_mapping(query).
StartFind ==
    /\ Begin("search")
    /\ \E q \in Queries :
          rd' = [BlankRd EXCEPT !.query = q, !.nq = NormalizeSearchTerm(q)]
    /\ Step("search", "fm_in", BlankLoc)
    /\ UNCHANGED <<mappings, settings, search_index, local_file, last_update, now, mode, req>>

\* if normalized_query in self.search_index; otherwise the second loop takes
\* self.search_index.items() of the dict of that moment.
FmIn ==
    /\ pc["search"] = "fm_in"
    /\ IF rd.nq \in IndexTerms(search_index)
       THEN /\ rd' = [rd EXCEPT !.idx = search_index]
            /\ Step("search", "fm_get", BlankLoc)
       ELSE /\ rd' = [rd EXCEPT !.idx = search_index, !.live = TRUE, !.dirty = FALSE]
            /\ Step("search", "fm_scan", BlankLoc)
    /\ UNCHANGED <<mappings, settings, search_index, local_file, last_update, now,
                   ops, mode, pre, req>>

\* primary_key = self.search_index[normalized_query]
FmGet ==
    /\ pc["search"] = "fm_get"
    /\ IF rd.nq \in IndexTerms(search_index)
       THEN /\ rd' = [rd EXCEPT !.idx = search_index, !.pk = IndexGet(search_index, rd.nq)]
            /\ Step("search", "fm_map", BlankLoc)
       ELSE /\ rd' = [rd EXCEPT !.idx = search_index]
            /\ Step("search", "raised", BlankLoc)
    /\ UNCHANGED <<mappings, settings, search_index, local_file, last_update, now,
                   ops, mode, pre, req>>

\* The second loop over the dict taken in FmIn.  When that dict has grown
\* meanwhile the loop raises RuntimeError at its next step, unless it had
\* already reached a match.
FmScan ==
    /\ pc["search"] = "fm_scan"
    /\ LET hits == PartialMatches(rd.idx, rd.nq)
       IN \/ /\ hits # {}
             /\ rd' = [rd EXCEPT !.pk = rd.idx[Min(hits)][2], !.live = FALSE]
             /\ Step("search", "fm_map", BlankLoc)
          \/ /\ hits = {} /\ ~rd.dirty
             /\ rd' = [rd EXCEPT !.res = None, !.live = FALSE]
             /\ Step("search", "done", BlankLoc)
          \/ /\ rd.dirty
             /\ rd' = [rd EXCEPT !.live = FALSE]
             /\ Step("search", "raised", BlankLoc)
    /\ UNCHANGED <<mappings, settings, search_index, local_file, last_update, now,
                   ops, mode, pre, req>>

\* return self.mappings[primary_key]
FmMap ==
    /\ pc["search"] = "fm_map"
    /\ IF mappings.kind = "dict" /\ rd.pk \in TableKeys(mappings)
       THEN /\ rd' = [rd EXCEPT !.tbl = mappings, !.res = Some(TableGet(mappings, rd.pk))]
            /\ Step("search", "done", BlankLoc)
       ELSE /\ rd' = [rd EXCEPT !.tbl = mappings]
            /\ Step("search", "raised", BlankLoc)
    /\ UNCHANGED <<mappings, settings, search_index, local_file, last_update, now,
                   ops, mode, pre, req>>

\* ------------------------------------------------------------------------
\* The Override Table under concurrent refreshes, reloads and lookups
\* ------------------------------------------------------------------------

Next ==
    \/ \E t \in Refreshers : StartRefresh(t)
    \/ \E t \in Refreshers : SaveOpen(t)
    \/ \E t \in Refreshers : SaveWrite(t)
    \/ \E t \in Writers : SetMappings(t)
    \/ \E t \in Writers : SetSettings(t)
    \/ \E t \in Writers : ResetIndex(t)
    \/ \E t \in Writers : IterStart(t)
    \/ \E t \in Writers : LoopKey(t)
    \/ \E t \in Writers : LoopAlt(t)
    \/ \E t \in Refreshers : Stamp(t)
    \/ StartReload
    \/ LoadFile
    \/ ExcMappings
    \/ ExcSettings
    \/ ExcIndex
    \/ StartFind
    \/ FmIn
    \/ FmGet
    \/ FmScan
    \/ FmMap

Spec == Init /\ [][Next]_vars

\* One operation at a time: the scheduled refresh and the reload, each run
\* alone from start to end.
NextSolo ==
    \/ StartRefresh("sched")
    \/ SaveOpen("sched")
    \/ SaveWrite("sched")
    \/ \E t \in {"sched", "reload"} : SetMappings(t)
    \/ \E t \in {"sched", "reload"} : SetSettings(t)
    \/ \E t \in {"sched", "reload"} : ResetIndex(t)
    \/ \E t \in {"sched", "reload"} : IterStart(t)
    \/ \E t \in {"sched", "reload"} : LoopKey(t)
    \/ \E t \in {"sched", "reload"} : LoopAlt(t)
    \/ Stamp("sched")
    \/ StartReload
    \/ LoadFile
    \/ ExcMappings
    \/ ExcSettings
    \/ ExcIndex

SpecSolo == InitSolo /\ [][NextSolo]_vars

\* update_loop alone: it sleeps, wakes up and runs download_remote_mapping,
\* again and again.  time.sleep returns and the thread is scheduled, so a
\* step the loop can take is eventually taken.
NextLoop ==
    \/ StartRefresh("sched")
    \/ SaveOpen("sched")
    \/ SaveWrite("sched")
    \/ SetMappings("sched")
    \/ SetSettings("sched")
    \/ ResetIndex("sched")
    \/ IterStart("sched")
    \/ LoopKey("sched")
    \/ LoopAlt("sched")
    \/ Stamp("sched")

SpecLoop == InitSolo /\ [][NextLoop]_vars /\ WF_vars(NextLoop)

\* ------------------------------------------------------------------------
\* One request to /api, served against the table the service was
\* constructed with.
\* ------------------------------------------------------------------------

MaxSeason == 2

\* Curated entries: keys are the keys present in the JSON object.
EntryPlain ==
    Entry({"anilist_id", "anime_name", "anime_format", "torrents"}, 10, <<"a">>, "TV", 0, <<>>,
          FALSE,
          <<Torrent(JInt(1), <<"[", "G", "]", " ", "S", "2", " ", "1", "-", "3">>), Torrent(JInt(4), <<"S", "1", "E", "5">>), Torrent(JNull, <<"x">>)>>)

EntryMovie ==
    Entry({"anilist_id", "anime_format", "torrents"}, 30, <<>>, "MOVIE", 0, <<>>, FALSE,
          <<Torrent(JInt(5), <<"f", "u", "l", "l">>)>>)

EntryAlso ==
    Entry({"anilist_id", "anime_name", "anime_format", "use_seadex_also", "torrents"},
          10, <<"a">>, "", 0, <<>>, TRUE, <<Torrent(JInt(1), <<"S", "1", "E", "5">>)>>)

EntryStringId ==
    Entry({"anilist_id", "anime_format", "year", "use_seadex_also", "torrents"},
          10, <<>>, "TV", 2020, <<>>, TRUE, <<Torrent(JStr(2), <<"S", "1", "E", "5">>)>>)

EntryTwice ==
    Entry({"anilist_id", "use_seadex_also", "torrents"}, 10, <<>>, "TV", 0, <<>>, TRUE,
          <<Torrent(JInt(1), <<"S", "1", "E", "1">>), Torrent(JInt(1), <<"S", "1", " ", "1", "-", "3">>)>>)

EntryNoId ==
    Entry({"anime_name", "torrents"}, 0, <<"n">>, "TV", 0, <<>>, FALSE,
          <<Torrent(JInt(4), <<"S", "1", "E", "5">>)>>)

EntryEmpty == Entry({}, 0, <<>>, "TV", 0, <<>>, FALSE, <<>>)

\* "anime_name": "" in an entry that opts into the aggregation source.
EntryNoName ==
    Entry({"anilist_id", "anime_name", "use_seadex_also", "torrents"}, 10, <<>>, "TV", 0, <<>>,
          TRUE, <<Torrent(JInt(4), <<"S", "1", "E", "5">>)>>)

\* A curated special: season 0 in the name of its torrent.
EntrySpecial ==
    Entry({"anilist_id", "anime_name", "anime_format", "torrents"}, 10, <<"a">>, "TV", 0, <<>>,
          FALSE, <<Torrent(JInt(3), <<"S", "0", "E", "5">>)>>)

SearchDoc(a, b) ==
    ObjectDoc({"mappings"}, DictTable(<< <<<<"a">>, a>>, <<<<"b">>, b>> >>), EmptySettings)

SearchDocs ==
    {SearchDoc(EntryPlain, EntryMovie), SearchDoc(EntryAlso, EntryNoId),
     SearchDoc(EntryStringId, EntryEmpty), SearchDoc(EntryTwice, EntryMovie),
     SearchDoc(EntryNoName, EntryPlain), SearchDoc(EntrySpecial, EntryEmpty)}

\* The fields of the service are those of svc.
Installed(svc) ==
    /\ mappings = svc.mappings
    /\ settings = svc.settings
    /\ search_index = svc.search_index
    /\ local_file = svc.local_file
    /\ last_update = svc.last_update

\* The service constructed from a remote document.
InitSearch ==
    /\ \E d \in SearchDocs :
          Installed(InitializeMappings(FileMissing, [kind |-> "json", doc |-> d], "ok", TRUE))
    /\ now = 1
    /\ pc = [t \in Threads |-> "idle"]
    /\ loc = [t \in Writers |-> BlankLoc]
    /\ rd = BlankRd
    /\ ops = 0
    /\ pre = Snapshot
    /\ mode = "search"
    /\ req = NoReq

\* The q parameter.
QueryParams == {<<>>, <<"a">>, <<"b", " ", "S", "2">>, <<"z", "&">>}

\* The season and ep parameters: absent, not a number, or a number.
NumberParams == {<<>>, <<"x">>} \cup {<<DigitChars[n + 1]>> : n \in 0..MaxSeason}

\* "int(p) if p else None", with ValueError giving None.
ParamInt(p) ==
    IF p # <<>> /\ \A i \in 1..Len(p) : IsDigit(p[i]) THEN Some(ToInt(p)) ELSE None

\* "if not query_param or query_param.strip() == ''"
Blank(q) == Strip(q) = <<>>

\* t=search, app.py lines 26-41 and 50
ApiSearch(q, cat, response) ==
    /\ req.pc = "none"
    /\ req' = [req EXCEPT
                 !.pc = "received", !.t = "search", !.q = q, !.cat = cat,
                 !.response = response,
                 !.query = process_search_query(
                             IF Blank(q) THEN (IF cat = "2000" THEN <<"A", "k", "i", "r", "a">> ELSE <<"g", "i", "v", "e", "n">>)
                             ELSE q)]
    /\ UNCHANGED svcVars

\* t=tvsearch, app.py lines 91-114
ApiTvSearch(q, season, ep) ==
    /\ req.pc = "none"
    /\ req' = [req EXCEPT
                 !.pc = "received", !.t = "tvsearch", !.q = q,
                 !.season = ParamInt(season), !.episode = ParamInt(ep),
                 !.query = process_search_query(IF Blank(q) THEN <<"g", "i", "v", "e", "n">> ELSE q)]
    /\ UNCHANGED svcVars

\* t=movie, app.py lines 136-147
ApiMovie(q) ==
    /\ req.pc = "none"
    /\ req' = [req EXCEPT
                 !.pc = "received", !.t = "movie", !.q = q,
                 !.query = process_search_query(IF Blank(q) THEN DefaultQuery ELSE q)]
    /\ UNCHANGED svcVars

\* perform_search line 23
FindMapping ==
    /\ req.pc = "received"
    /\ LET found == FindMappingIn(mappings, search_index, req.query)
       IN req' = IF found.raised THEN [req EXCEPT !.pc = "raised"]
                 ELSE [req EXCEPT !.pc = "looked", !.mapping = found.mapping]
    /\ UNCHANGED svcVars

\* "if mapping:": an entry was found and it is not an empty object.
MappingTrue == req.mapping # None /\ req.mapping[1].keys # {}

\* mapping.get('anilist_id') / mapping.get('year'): None when absent.
GetNumber(mapping, key) == IF key \in mapping.keys THEN Some(mapping[key]) ELSE None

\* perform_search lines 25-35: the entry's own values and synthetic releases
BuildCustom ==
    /\ req.pc = "looked"
    /\ MappingTrue
    /\ req' = [req EXCEPT
                 !.pc = "custom",
                 !.result = SearchResult(GetNumber(req.mapping[1], "anilist_id"),
                                         Some(Get(req.mapping[1], "anime_name", req.query)),
                                         <<>>,
                                         Some(Get(req.mapping[1], "anime_format", "TV")),
                                         GetNumber(req.mapping[1], "year")),
                 !.custom = get_custom_torrents(req.mapping[1])]
    /\ UNCHANGED svcVars

\* perform_search line 38, false: nothing is added to the synthetic releases
SkipSeadex ==
    /\ req.pc = "custom"
    /\ ~should_use_seadex(req.mapping, settings)
    /\ req' = [req EXCEPT !.pc = "merged", !.merged = req.custom]
    /\ UNCHANGED svcVars

\* anime_name of line 30, once the entry's values are read.
NameAsked == IF req.result.name = None THEN <<>> ELSE req.result.name[1]

\* perform_search lines 38-53: the resolver is asked, and a format or year
\* the entry lacks is taken from its answer
ResolveName(upstream, anilist) ==
    /\ req.pc = "custom"
    /\ should_use_seadex(req.mapping, settings)
    /\ req' = [req EXCEPT
                 !.pc = "resolved",
                 !.resolver_called = TRUE,
                 !.upstream = upstream.kind,
                 !.media = upstream.media,
                 !.anilist = anilist,
                 !.title = req.result.name[1],
                 !.anilist_ids = anilist.ids,
                 !.result.format = IF NoFormat(req.result.format) THEN anilist.format
                                   ELSE req.result.format,
                 !.result.year = IF ~Positive(req.result.year) THEN anilist.year
                                 ELSE req.result.year]
    /\ UNCHANGED svcVars

\* perform_search lines 80-98: no entry, the resolver is asked for the query
ResolveQuery(upstream, anilist) ==
    /\ req.pc = "looked"
    /\ ~MappingTrue
    /\ req' = IF ~Positive(anilist.id)
              THEN [req EXCEPT !.pc = "searched", !.resolver_called = TRUE,
                               !.upstream = upstream.kind, !.title = req.query,
                               !.media = upstream.media,
                               !.anilist = anilist,
                               !.result = NoResult]
              ELSE [req EXCEPT
                      !.pc = "resolved",
                      !.resolver_called = TRUE,
                      !.upstream = upstream.kind,
                      !.media = upstream.media,
                      !.anilist = anilist,
                      !.title = req.query,
                      !.anilist_ids = anilist.ids,
                      !.result = SearchResult(anilist.id, anilist.name, <<>>,
                                              anilist.format, anilist.year)]
    /\ UNCHANGED svcVars

\* perform_search lines 56 and 101: get_all_releases
FetchReleases(catalog) ==
    /\ req.pc = "resolved"
    /\ req' = [req EXCEPT !.pc = "fetched", !.seadex_called = TRUE,
                          !.catalog = catalog,
                          !.raw = get_all_releases(req.anilist_ids, catalog)]
    /\ UNCHANGED svcVars

\* perform_search lines 57-59 and 103-110: process_seadex_torrents (the flow
\* without an entry returns an empty list when nothing was fetched)
ProcessReleases ==
    /\ req.pc = "fetched"
    /\ req' = [req EXCEPT
                 !.pc = "processed",
                 !.processed = process_seadex_torrents(req.raw, req.season, req.episode,
                                                       req.result.format)]
    /\ UNCHANGED svcVars

\* perform_search lines 61-67
MergeReleases ==
    /\ req.pc = "processed"
    /\ MappingTrue
    /\ req' = [req EXCEPT !.pc = "merged", !.merged = Merge(req.custom, req.processed)]
    /\ UNCHANGED svcVars

\* perform_search lines 69-78: filter, mark the movies, return
FilterAndReturn ==
    /\ req.pc = "merged"
    /\ req' = [req EXCEPT
                 !.pc = "searched",
                 !.result.torrents =
                    MarkMovies(filter_torrents(req.merged, req.season, req.episode),
                               req.result.format)]
    /\ UNCHANGED svcVars

\* perform_search lines 112-113: the flow without an entry returns what
\* process_seadex_torrents gave
ReturnProcessed ==
    /\ req.pc = "processed"
    /\ ~MappingTrue
    /\ req' = [req EXCEPT !.pc = "searched", !.merged = req.processed,
                          !.result.torrents = req.processed]
    /\ UNCHANGED svcVars

\* The detail page of a release on nyaa.si: "neterr" requests.get raises,
\* "http" raise_for_status raises, "page" a page with its title and the text
\* of its size cell.
Page(kind, title, size) == [kind |-> kind, title |-> title, size |-> size]

PageDown == Page("neterr", <<>>, <<>>)

PageMissing == Page("http", <<>>, <<>>)

PageUp == Page("page", <<"t">>, <<"1", ".", "5", " ", "M", "i", "B">>)

\* A page whose size cell is not the text of one number.
PageOddSize == Page("page", <<"t">>, <<"1", ".", "2", ".", "3", " ", "G", "i", "B">>)

\* The release keys that have a detail page.
NyaaIds == 1..7

\* What nyaa.si answers per release key.
NyaaSites ==
    {[id \in NyaaIds |-> PageUp],
     [id \in NyaaIds |-> PageDown],
     [id \in NyaaIds |-> IF id = 1 THEN PageDown ELSE IF id = 4 THEN PageMissing ELSE PageUp],
     [id \in NyaaIds |-> IF id = 2 THEN PageOddSize ELSE PageUp]}

PageOf(site, id) == IF id \in DOMAIN site THEN site[id] ELSE PageMissing

\* ([\d\.]+) at the start of the text: the end of the run of digits and dots.
NumberEnd(s) == Max({j \in 0..Len(s) : \A k \in 1..j : IsDigit(s[k]) \/ s[k] = "."})

\* (GiB|MiB|KiB|TiB|B) under re.I, and the multiplier of each unit as a
\* power of 1024.
Units ==
    <<[lit |-> <<"g", "i", "b">>, power |-> 3], [lit |-> <<"m", "i", "b">>, power |-> 2],
      [lit |-> <<"k", "i", "b">>, power |-> 1], [lit |-> <<"t", "i", "b">>, power |-> 4],
      [lit |-> <<"b">>, power |-> 0]>>

UnitsAt(s, i) == {u \in 1..Len(Units) : LitAt(s, i, Units[u].lit)}

\* float(num) of a text of digits and dots raises ValueError unless the
\* text has a digit and at most one dot.
IsFloat(num) ==
    /\ \E k \in 1..Len(num) : IsDigit(num[k])
    /\ Cardinality({k \in 1..Len(num) : num[k] = "."}) <= 1

\* int(float(num) * by)
Scaled(num, by) ==
    LET dots == {k \in 1..Len(num) : num[k] = "."}
        dot == IF dots = {} THEN Len(num) + 1 ELSE Min(dots)
        decimals == SubSeq(num, dot + 1, Len(num))
    IN ToInt(SubSeq(num, 1, dot - 1)) * by
          + (ToInt(decimals) * by) \div (10 ^ Len(decimals))

\* What size_to_bytes does once the unit is known to match or not.
Sized(num, units) ==
    IF units = {} THEN [raised |-> FALSE, bytes |-> 0]
    ELSE IF ~IsFloat(num) THEN [raised |-> TRUE, bytes |-> 0]
    ELSE [raised |-> FALSE, bytes |-> Scaled(num, 1024 ^ Units[Min(units)].power)]

\* SizeUtils.size_to_bytes: the bytes, or ValueError raised by float().
size_to_bytes(size_str) ==
    IF NumberEnd(size_str) = 0 THEN [raised |-> FALSE, bytes |-> 0]
    ELSE Sized(SubSeq(size_str, 1, NumberEnd(size_str)),
               UnitsAt(size_str, SkipWs(size_str, NumberEnd(size_str) + 1)))

\* The dict fetch_nyaa_metadata returns for a page, lines 26-72.
Scraped(page, size) ==
    [raised |-> size.raised,
     metadata |-> IF size.raised THEN None
                  ELSE Some([title |-> page.title, size_bytes |-> size.bytes])]

\* NyaaService.fetch_nyaa_metadata: None when the request fails, the dict
\* scraped from the page otherwise; what size_to_bytes raises is not caught.
fetch_nyaa_metadata(page) ==
    IF page.kind # "page" THEN [raised |-> FALSE, metadata |-> None]
    ELSE Scraped(page, size_to_bytes(page.size))

\* f"{anime_name}"
Shown(anime_name) == IF anime_name = None THEN <<"N", "o", "n", "e">> ELSE anime_name[1]

\* XMLService.build_rss_enhanced, lines 73-81: "if not nyaa_metadata"
FallbackMetadata(anime_name, torrent) ==
    [title |-> Shown(anime_name) \o <<" ", "-", " ">> \o torrent.release_group,
     size_bytes |-> torrent.total_size]

\* One category against release type only, whatever the caller forces.
CategoryByType(force_anime_category, movie) ==
    IF movie THEN [text |-> "Movies", id |-> "2000"] ELSE [text |-> "Anime", id |-> "5000"]

\* Lines 130-138: the category element and the id of the category attribute.
CategoryOf(force_anime_category, movie) ==
    IF force_anime_category \/ ~movie THEN [text |-> "Anime", id |-> "5000"]
    ELSE [text |-> "Movies", id |-> "2000"]

\* The item built for one release, lines 102-173.
ItemOf(torrent, movie, category, nyaa_metadata) ==
    [title |-> nyaa_metadata.title,
     link |-> torrent.url,
     size |-> nyaa_metadata.size_bytes,
     category_text |-> category.text,
     category |-> category.id,
     season |-> IF movie THEN Some(1)
                ELSE IF Positive(torrent.season) THEN torrent.season ELSE None,
     episode |-> IF movie THEN Some(1)
                 ELSE IF Positive(torrent.episode) THEN torrent.episode ELSE None,
     files |-> torrent.episode_count,
     anilist_id |-> IF Positive(torrent.source_anilist_id) THEN torrent.source_anilist_id
                    ELSE None]

\* "torrent_info.get('is_movie') or anime_format == 'MOVIE'"
IsMovieItem(torrent, anime_format) == torrent.is_movie \/ anime_format = Some("MOVIE")

\* XMLService.build_rss_enhanced, lines 68-175: the item of one release.
FeedItem(torrent, anime_format, force_anime_category, nyaa_metadata) ==
    ItemOf(torrent, IsMovieItem(torrent, anime_format),
           CategoryOf(force_anime_category, IsMovieItem(torrent, anime_format)),
           nyaa_metadata)

\* What ElementTree writes for the text of an element.
RECURSIVE XmlEscape(_)
XmlEscape(s) ==
    IF s = <<>> THEN <<>>
    ELSE (CASE Head(s) = "&" -> <<"&", "a", "m", "p", ";">>
            [] Head(s) = "<" -> <<"&", "l", "t", ";">>
            [] Head(s) = ">" -> <<"&", "g", "t", ";">>
            [] OTHER -> <<Head(s)>>) \o XmlEscape(Tail(s))

\* The text of an element of a well-formed document: no "<", and no "&"
\* but at the start of an entity reference.
WellFormedText(s) ==
    \A i \in 1..Len(s) :
        /\ s[i] # "<"
        /\ s[i] = "&" => (LitAt(s, i, <<"&", "a", "m", "p", ";">>) \/ LitAt(s, i, <<"&", "l", "t", ";">>) \/ LitAt(s, i, <<"&", "g", "t", ";">>))

\* The feed once every detail lookup has returned.
FeedOf(torrents, anime_name, anime_format, force_anime_category, fetched) ==
    [kind |-> "rss",
     items |-> [i \in 1..Len(torrents) |->
                   FeedItem(torrents[i], anime_format, force_anime_category,
                            IF fetched[i].metadata = None
                            THEN FallbackMetadata(anime_name, torrents[i])
                            ELSE fetched[i].metadata[1])],
     force_anime_category |-> force_anime_category,
     total |-> Len(torrents),
     text |-> XmlEscape(<<"T", "o", "r", "r", "e", "n", "t", "s", " ", "f", "o", "r", " ">> \o Shown(anime_name))]

\* The two JSON answers of t=search, and the answer of the server when the
\* handler raises ("error500").
Answer(kind) ==
    [kind |-> kind, items |-> <<>>, force_anime_category |-> FALSE, total |-> 0, text |-> <<>>]

\* XMLService.build_empty_rss: the description is put into the document as
\* it is, next to total="0".
build_empty_rss(description) ==
    [kind |-> "empty_rss", items |-> <<>>, force_anime_category |-> FALSE, total |-> 0,
     text |-> description]

\* What build_rss_enhanced makes of what the detail lookups gave.
Built(torrents, anime_name, anime_format, force_anime_category, fetched) ==
    IF \E i \in 1..Len(fetched) : fetched[i].raised THEN Answer("error500")
    ELSE FeedOf(torrents, anime_name, anime_format, force_anime_category, fetched)

\* XMLService.build_rss_enhanced: one item per release, in order, each after
\* the detail lookup of its release.
build_rss_enhanced(torrents, anime_name, anime_format, force_anime_category, site) ==
    Built(torrents, anime_name, anime_format, force_anime_category,
          [i \in 1..Len(torrents) |-> fetch_nyaa_metadata(PageOf(site, torrents[i].url))])

\* "if not anilist_id or not processed_torrents"
NothingFound(result) == ~Positive(result.id) \/ result.torrents = <<>>

\* app.py lines 76-84: the category asked for decides, else the format.
ForceAnime(cat, anime_format) ==
    IF cat = "5000" THEN TRUE
    ELSE IF cat = "2000" THEN FALSE
    ELSE anime_format # Some("MOVIE")

\* The handler answers with a feed: something was found and JSON was not
\* asked for.
FeedDue == ~NothingFound(req.result) /\ req.response # "json"

\* The rest of the handler of /api once perform_search has returned, when
\* no feed is built: the empty feed or a JSON answer.
Respond ==
    /\ req.pc = "searched"
    /\ ~FeedDue
    /\ req' = [req EXCEPT
                 !.pc = "answered",
                 !.answer =
                    IF ~NothingFound(req.result) THEN Answer("json")
                    ELSE IF req.response = "json" THEN Answer("json404")
                    ELSE build_empty_rss(<<"N", "o", " ", "r", "e", "s", "u", "l", "t", "s", " ", "f", "o", "u", "n", "d", " ", "f", "o", "r", ":", " ">> \o req.query)]
    /\ UNCHANGED svcVars

\* The flag each request mode passes as force_anime_category.
Forced ==
    CASE req.t = "tvsearch" -> TRUE
      [] req.t = "movie" -> FALSE
      [] OTHER -> ForceAnime(req.cat, req.result.format)

\* The rest of the handler when a feed is built; an exception that leaves
\* build_rss_enhanced leaves the handler too.
RespondFeed(site) ==
    /\ req.pc = "searched"
    /\ FeedDue
    /\ req' = [req EXCEPT
                 !.pc = "answered",
                 !.site = site,
                 !.answer = build_rss_enhanced(req.result.torrents, req.result.name,
                                               req.result.format, Forced, site)]
    /\ UNCHANGED svcVars

NextSearch ==
    \/ \E q \in QueryParams, cat \in {"", "2000", "5000"}, response \in {"xml", "json"} :
          ApiSearch(q, cat, response)
    \/ \E q \in QueryParams, season \in NumberParams, ep \in NumberParams :
          ApiTvSearch(q, season, ep)
    \/ \E q \in QueryParams : ApiMovie(q)
    \/ FindMapping
    \/ BuildCustom
    \/ SkipSeadex
    \/ \E upstream \in Upstreams :
          ResolveName(upstream, get_anilist_id_with_relations(NameAsked, SearchType, upstream))
    \/ \E upstream \in Upstreams :
          ResolveQuery(upstream, get_anilist_id_with_relations(req.query, SearchType, upstream))
    \/ \E catalog \in Catalogs : FetchReleases(catalog)
    \/ ProcessReleases
    \/ MergeReleases
    \/ FilterAndReturn
    \/ ReturnProcessed
    \/ Respond
    \/ \E site \in NyaaSites : RespondFeed(site)

SpecSearch == InitSearch /\ [][NextSearch]_vars

\* ------------------------------------------------------------------------
\* The text functions on their own: process_search_query applied to a query
\* and to its own output, and extract_episode_info applied to a file name.
\* ------------------------------------------------------------------------

MaxDecorations == 2

\* What clients append to a title.
Decorations == {<<" ", "2", "0", "2", "0">>, <<" ", "(", "2", "0", "2", "0", ")">>, <<" ", "S", "2">>, <<" ", "S", "e", "a", "s", "o", "n", " ", "2">>, <<" ", "E", "3">>, <<" ", "E", "p", "i", "s", "o", "d", "e", " ", "3">>}

Titles == {<<>>, <<"a">>, <<"a", " ", ":", " ", "b">>}

RECURSIVE Flatten(_)
Flatten(texts) == IF texts = <<>> THEN <<>> ELSE Head(texts) \o Flatten(Tail(texts))

\* A title followed by up to MaxDecorations decorations, in any order.
DecoratedQueries ==
    {title \o Flatten(ds) :
        title \in Titles, ds \in UNION {[1..n -> Decorations] : n \in 0..MaxDecorations}}

\* What stands before and after S03E07 in a file name.
Befores == {<<>>, <<"x", " ">>, <<"S", "0", "1", "E", "0", "2", " ">>, <<"2", "x", "0", "5", " ">>, <<"S", "e", "a", "s", "o", "n", " ", "2", " ">>, <<"1">>, <<"E", "9", " ">>}

Afters == {<<>>, <<" ", "y">>, <<"0">>, <<" ", "S", "0", "1", "E", "0", "1">>, <<"b", "1", "2">>, <<".", "m", "k", "v">>, <<" ", "1", "0">>}

NoText == [pc |-> "none", text |-> <<>>, once |-> <<>>, twice |-> <<>>, info |-> Pair(None, None)]

InitText == InitSvc /\ mode = "text" /\ req = NoText

\* A query arrives.
TakeQuery(query) ==
    /\ req.pc = "none"
    /\ req' = [NoText EXCEPT !.pc = "query", !.text = query]
    /\ UNCHANGED svcVars

\* process_search_query(query)
NormalizeOnce ==
    /\ req.pc = "query"
    /\ req' = [req EXCEPT !.pc = "once", !.once = process_search_query(req.text)]
    /\ UNCHANGED svcVars

\* process_search_query applied to its own output
NormalizeTwice ==
    /\ req.pc = "once"
    /\ req' = [req EXCEPT !.pc = "twice", !.twice = process_search_query(req.once)]
    /\ UNCHANGED svcVars

\* A file name that contains S03E07.
TakeFileName(before, after) ==
    /\ req.pc = "none"
    /\ req' = [NoText EXCEPT !.pc = "file", !.text = before \o <<"S", "0", "3", "E", "0", "7">> \o after]
    /\ UNCHANGED svcVars

\* extract_episode_info(filename)
ExtractInfo ==
    /\ req.pc = "file"
    /\ req' = [req EXCEPT !.pc = "info", !.info = extract_episode_info(req.text)]
    /\ UNCHANGED svcVars

NextText ==
    \/ \E query \in DecoratedQueries : TakeQuery(query)
    \/ NormalizeOnce
    \/ NormalizeTwice
    \/ \E before \in Befores, after \in Afters : TakeFileName(before, after)
    \/ ExtractInfo

SpecText == InitText /\ [][NextText]_vars

\* ------------------------------------------------------------------------
\* Claims about the Override Table
\* ------------------------------------------------------------------------

\* The tables a complete load can install, each with its complete index.
LoadableTables ==
    {tbl \in {Get(d, "mappings", EmptyTable) : d \in RemoteDocs \cup {DefaultDoc}} \cup {EmptyTable} :
        BuildSearchIndex(tbl).ok}

\* What a finished lookup saw is one complete state: the index it read is
\* the complete index of one table, and the table it read is that table.
ReadSawOneState ==
    \E tbl \in LoadableTables :
        /\ rd.idx = BuildSearchIndex(tbl).idx
        /\ rd.res # None => rd.tbl = tbl

\* C1: a lookup running while a refresh runs sees the complete table-plus-
\* index state of before the refresh or of after it, never a mix; so it
\* never raises on a key the table lacks, and the index and the table it
\* read belong together.
C1_ReadsSeeOneState ==
    /\ pc["search"] # "raised"
    /\ pc["search"] = "done" => ReadSawOneState

\* C2: the forced refresh and the scheduled refresh never interleave: at
\* most one download-and-swap is in progress at any time.
C2_OneRefreshAtATime == ~(InProgress("sched") /\ InProgress("force"))

\* C3: a refresh that fails, at whatever step, leaves the in-memory table,
\* settings and index exactly as they were when it started.
C3_FailedRefreshChangesNothing ==
    [][(pc["sched"] # "failed" /\ pc'["sched"] = "failed") => Snapshot' = pre]_vars

\* The primary keys of the in-memory table (none when it is not a dict).
KeysOf(tbl) == IF tbl.kind = "dict" THEN TableKeys(tbl) ELSE {}

\* C28: in every state, also in the middle of a refresh or a reload, every
\* primary key stored in the search index is a key of the in-memory table,
\* so that find_mapping never raises on a missing key.
C28_IndexKeysInTable ==
    /\ \A i \in 1..Len(search_index) : search_index[i][2] \in KeysOf(mappings)
    /\ pc["search"] # "raised"

\* Every refresh and reload begun has run to its end, and the last refresh
\* of each thread was successful.
AllCompleted ==
    /\ \A t \in Refreshers : pc[t] \in {"idle", "ok"}
    /\ pc["reload"] \in {"idle", "done"}

\* C29: once the refreshes and reloads have run to completion, in any
\* interleaving and every refresh successful, the in-memory table is the
\* table of the local file: a reload from the local file leaves the table
\* as it is.
C29_TableIsTheSavedOne ==
    AllCompleted =>
        LoadMappings(Svc(mappings, settings, search_index, local_file, last_update)).mappings
            = mappings

\* ops counts the operations begun: the same after at most one operation.
C29_AfterOneOperation ==
    (AllCompleted /\ ops <= 1) =>
        LoadMappings(Svc(mappings, settings, search_index, local_file, last_update)).mappings
            = mappings

\* The local file is absent and table, settings and index are those of
\* before the reload.
ReloadChangedNothing == local_file.st = "missing" /\ Snapshot = pre

\* The local file holds a JSON object; table and settings are those of the
\* file (or the defaults of absent keys) and the index is the complete
\* index of the table.
ReloadLoadedAll ==
    /\ local_file.st = "doc" /\ local_file.doc.kind = "object"
    /\ mappings = Get(local_file.doc, "mappings", EmptyTable)
    /\ settings = Get(local_file.doc, "settings", DefaultSettings)
    /\ BuildSearchIndex(mappings).ok
    /\ search_index = BuildSearchIndex(mappings).idx

\* The local file cannot be read, is not a JSON object or cannot be
\* indexed, and table, settings and index are empty.
ReloadClearedAll ==
    /\ \/ local_file.st = "partial"
       \/ local_file.st = "doc" /\ local_file.doc.kind # "object"
       \/ local_file.st = "doc"
             /\ ~BuildSearchIndex(Get(local_file.doc, "mappings", EmptyTable)).ok
    /\ mappings = EmptyTable /\ settings = EmptySettings /\ search_index = <<>>

\* C30: a reload run alone ends with table, settings and index all
\* unchanged (no local file), all loaded from the file, or all empty (file
\* unreadable, not parseable or not indexable), never with a part of them
\* loaded; and no step of a reload changes the time of the last refresh.
C30_ReloadAllOrNothing ==
    /\ [][(pc["reload"] # "done" /\ pc'["reload"] = "done")
             => (ReloadChangedNothing \/ ReloadLoadedAll \/ ReloadClearedAll)']_vars
    /\ [][(InProgress("reload") \/ pc'["reload"] # pc["reload"])
             => last_update' = last_update]_vars

\* A reload has ended with everything empty after it had put the first key
\* of a table that cannot be indexed into the index; the table of before
\* was not empty and a refresh had succeeded earlier.
C30_Witness ==
    /\ pc["reload"] = "done"
    /\ ReloadClearedAll
    /\ local_file.st = "doc" /\ local_file.doc.kind = "object"
    /\ pre.mappings # EmptyTable
    /\ pre.search_index # <<>>

\* C16: a scheduled refresh that fails never ends the update thread: every
\* run of download_remote_mapping comes back to the loop with True or False,
\* and after a failed run the loop starts another one at its next wake-up.
C16_LoopSurvivesFailure ==
    /\ [](InProgress("sched") => <>(pc["sched"] \in {"ok", "failed"}))
    /\ \A n \in 0..(MaxOps - 1) :
          []((pc["sched"] = "failed" /\ ops = n) => <>(ops = n + 1))

\* The loop is in its second run although no download has ever succeeded:
\* the first scheduled refresh failed and the loop went on.
C16_Witness == ops = 2 /\ InProgress("sched") /\ last_update = None

\* ------------------------------------------------------------------------
\* Claims about a search
\* ------------------------------------------------------------------------

\* No season and no episode filter was given with the request.
NoFilter == req.season = None /\ req.episode = None

\* The entry find_mapping returned does not ask for the aggregation source.
NotOptedIn == req.mapping # None /\ ~Get(req.mapping[1], "use_seadex_also", FALSE)

\* C4: a search without season/episode filter whose query matches an entry
\* that does not opt into the aggregation source returns exactly the
\* synthetic releases of that entry, and neither the identity resolver nor
\* the aggregation source is called.
C4_CustomOnlyWithoutCalls ==
    (req.pc = "searched" /\ NotOptedIn /\ NoFilter)
        => /\ req.result.torrents = get_custom_torrents(req.mapping[1])
           /\ ~req.resolver_called
           /\ ~req.seadex_called

\* The positions of the merged list that hold the release with this key
\* (the number of its nyaa.si/view/ address).
WithKey(torrents, key) == {k \in 1..Len(torrents) : torrents[k].url = key}

\* C5: whenever a synthetic release and a release of the aggregation source
\* share a release key, the merged list holds exactly one release with that
\* key, and it is the synthetic one.
C5_MergeKeepsTheSyntheticOne ==
    req.pc = "merged" =>
        \A i \in 1..Len(req.custom), j \in 1..Len(req.processed) :
            req.custom[i].url = req.processed[j].url =>
                /\ Cardinality(WithKey(req.merged, req.custom[i].url)) = 1
                /\ \A k \in WithKey(req.merged, req.custom[i].url) :
                      req.merged[k].is_custom_mapping

\* C6: when the table has an entry for the query and no season/episode
\* filter is given, the feed delivered to the caller has an item for every
\* synthetic release of that entry, whatever else the entry contains.
C6_SyntheticReleasesDelivered ==
    (req.pc = "answered" /\ req.response # "json" /\ req.mapping # None /\ NoFilter)
        => \A i \in 1..Len(get_custom_torrents(req.mapping[1])) :
              \E k \in 1..Len(req.answer.items) :
                  req.answer.items[k].link = get_custom_torrents(req.mapping[1])[i].url

\* A release passes the season filter of the request.
FitsSeason(torrent) ==
    \/ torrent.season = req.season
    \/ torrent.is_season_pack /\ req.season[1] \in SeqToSet(torrent.seasons)

\* C7: on every search path, with a season filter no returned release has
\* another season, unless it is a season pack whose seasons hold the
\* requested one.
C7_SeasonFilterOnEveryPath ==
    (req.pc = "searched" /\ Positive(req.season))
        => \A i \in 1..Len(req.result.torrents) : FitsSeason(req.result.torrents[i])

\* The release at position i of the merged list is among those returned.
Returned(i) ==
    \E k \in 1..Len(req.result.torrents) :
        req.result.torrents[k] = MarkMovies(<<req.merged[i]>>, req.result.format)[1]

\* C8: a release classified as a movie is never dropped by the season
\* filter, whatever season is requested.
C8_MoviesPassSeasonFilter ==
    (req.pc = "searched" /\ Positive(req.season))
        => \A i \in 1..Len(req.merged) :
              (req.merged[i].is_movie /\ EpisodeKeeps(req.merged[i], req.episode))
                  => Returned(i)

\* The episode filter of the request is given, the release has episode
\* numbers, and the filter value is not among them.
EpisodeMisses(torrent) ==
    /\ req.episode # None
    /\ torrent.episode_numbers # <<>>
    /\ req.episode[1] \notin SeqToSet(torrent.episode_numbers)

\* C23: on the filtering path a release that passed the season check is
\* dropped exactly when an episode filter is given, its episode numbers are
\* not empty and the filter value is not among them; it is kept otherwise.
C23_EpisodeFilterExact ==
    (req.pc = "searched" /\ MappingTrue) =>
        \A i \in 1..Len(req.merged) :
            SeasonKeeps(req.merged[i], req.season) =>
                (Returned(i) <=> ~EpisodeMisses(req.merged[i]))

\* The same for the episode filters that are not 0.
C23_EpisodeFilterNotZero ==
    (req.pc = "searched" /\ MappingTrue /\ req.episode # Some(0)) =>
        \A i \in 1..Len(req.merged) :
            SeasonKeeps(req.merged[i], req.season) =>
                (Returned(i) <=> ~EpisodeMisses(req.merged[i]))

\* C9: a season pack whose seasons hold the requested season survives the
\* season filter, also when its season field is another season.
C9_SeasonPackSurvives ==
    (req.pc = "searched" /\ Positive(req.season))
        => \A i \in 1..Len(req.merged) :
              (/\ req.merged[i].is_season_pack
               /\ req.season[1] \in SeqToSet(req.merged[i].seasons)
               /\ EpisodeKeeps(req.merged[i], req.episode))
                  => Returned(i)

\* A search on the filtering path returned a season pack of another season
\* because its seasons hold the requested one.
C9_Witness ==
    /\ req.pc = "searched" /\ MappingTrue /\ Positive(req.season)
    /\ \E i \in 1..Len(req.merged) :
          /\ req.merged[i].is_season_pack
          /\ req.merged[i].season # req.season
          /\ req.season[1] \in SeqToSet(req.merged[i].seasons)
          /\ Returned(i)

\* C10: every returned release has one classification: never both movie
\* and season pack, and a movie has neither season nor episode.
C10_OneClassification ==
    req.pc = "searched" =>
        \A i \in 1..Len(req.result.torrents) :
            LET torrent == req.result.torrents[i]
            IN /\ ~(torrent.is_movie /\ torrent.is_season_pack)
               /\ torrent.is_movie => (torrent.season = None /\ torrent.episode = None)

\* C14: the title is never empty: process_search_query never returns the
\* empty string, in every request mode an empty q is replaced by a default
\* title, and so neither find_mapping nor the identity resolver is ever
\* asked about an empty title.
C14_TitleNeverEmpty ==
    /\ req.pc # "none" => req.query # <<>>
    /\ req.resolver_called => req.title # <<>>

\* The identity resolver was asked and its upstream query failed or came
\* back without candidates, and perform_search has returned.
ReturnedAfterFailedResolve == req.pc = "searched" /\ req.upstream \in UpstreamFailures

\* C17: when the relation-graph query errors or returns no candidates, the
\* resolver returns an empty identity and an empty related set, and the
\* search returns an empty result without raising and without querying the
\* aggregation source.
C17_FailedResolveGivesNothing ==
    /\ req.upstream \in UpstreamFailures => (req.pc # "raised" /\ req.anilist_ids = <<>>)
    /\ ReturnedAfterFailedResolve =>
          /\ req.result.torrents = <<>>
          /\ req.raw = <<>>

\* C17, amended: when the relation-graph query errors or returns no
\* candidates, the resolver returns an empty identity and an empty related
\* set and no request goes to the aggregation source; a search without a
\* matching entry returns the empty result, and a search whose entry opted
\* into the aggregation source returns that entry's synthetic releases,
\* filtered, and nothing else.
C17_FailedResolveAmended ==
    /\ req.upstream \in UpstreamFailures => (req.pc # "raised" /\ req.anilist_ids = <<>>)
    /\ ReturnedAfterFailedResolve =>
          /\ req.raw = <<>>
          /\ ~MappingTrue => (req.result = NoResult /\ ~req.seadex_called)
          /\ MappingTrue =>
                req.result.torrents = filter_torrents(req.custom, req.season, req.episode)

\* A search whose entry opted into the aggregation source returned the
\* entry's synthetic releases although the resolver's query failed.
C17_Witness ==
    /\ ReturnedAfterFailedResolve
    /\ MappingTrue
    /\ req.result.torrents # <<>>

\* The request to the aggregation source for this id failed: another status
\* than 200, a network error, or a body that does not parse.
FetchFailed(id) == req.catalog[id].kind \in ReplyFailures

\* The request for this id was answered and every item of the answer read.
FetchedWhole(id) ==
    /\ ~FetchFailed(id)
    /\ \A i \in 1..Len(req.catalog[id].items) : req.catalog[id].items[i].ok

\* The position of an id in the related set.
PlaceOf(id) == Min({p \in 1..Len(req.anilist_ids) : req.anilist_ids[p] = id})

\* C18: an identity of the related set whose fetch fails is skipped, the
\* releases of every other identity are still returned, each marked with
\* the identity it was fetched for, in the order of the related set.
C18_FailedFetchSkipsOneIdentity ==
    req.pc = "fetched" =>
        /\ \A k \in 1..Len(req.raw) :
              /\ req.raw[k].source_anilist_id # None
              /\ req.raw[k].source_anilist_id[1] \in SeqToSet(req.anilist_ids)
              /\ ~FetchFailed(req.raw[k].source_anilist_id[1])
              /\ \E i \in 1..Len(req.catalog[req.raw[k].source_anilist_id[1]].items) :
                    \E j \in 1..Len(req.catalog[req.raw[k].source_anilist_id[1]].items[i].trs) :
                        req.raw[k] =
                            [req.catalog[req.raw[k].source_anilist_id[1]].items[i].trs[j]
                                EXCEPT !.source_anilist_id = req.raw[k].source_anilist_id]
        /\ \A p \in 1..Len(req.anilist_ids) :
              FetchedWhole(req.anilist_ids[p]) =>
                  \A i \in 1..Len(req.catalog[req.anilist_ids[p]].items) :
                      \A j \in 1..Len(req.catalog[req.anilist_ids[p]].items[i].trs) :
                          \E k \in 1..Len(req.raw) :
                              req.raw[k] =
                                  [req.catalog[req.anilist_ids[p]].items[i].trs[j]
                                      EXCEPT !.source_anilist_id = Some(req.anilist_ids[p])]
        /\ \A k \in 1..Len(req.raw), l \in 1..Len(req.raw) :
              k < l => PlaceOf(req.raw[k].source_anilist_id[1])
                          <= PlaceOf(req.raw[l].source_anilist_id[1])

\* The fetch for the first identity of the related set failed and the
\* releases of a later identity were returned, marked with that identity.
C18_Witness ==
    /\ req.pc = "fetched"
    /\ Len(req.anilist_ids) > 1
    /\ FetchFailed(req.anilist_ids[1])
    /\ req.catalog[req.anilist_ids[1]].items # <<>>
    /\ \E k \in 1..Len(req.raw) : req.raw[k].source_anilist_id = Some(req.anilist_ids[2])

\* An entry that opts into the aggregation source was found, and the
\* resolver has resolved an identity for it.
ResolvedForEntry ==
    /\ MappingTrue
    /\ req.resolver_called
    /\ req.anilist.id # None
    /\ req.pc \in {"resolved", "fetched", "processed", "merged", "searched"}

\* The entry has a format / a year of its own.
EntryHasFormat == "anime_format" \in req.mapping[1].keys /\ req.mapping[1].anime_format # ""

EntryHasYear == "year" \in req.mapping[1].keys /\ req.mapping[1].year # 0

\* C27: for an entry that opts into the aggregation source, a format or a
\* year the entry does not have is that of the identity the resolver
\* resolved, in what the search returns and in the classification of the
\* releases; a format or a year the entry has is never replaced.
C27_MissingValuesBackfilled ==
    ResolvedForEntry =>
        /\ req.result.format =
              IF EntryHasFormat THEN Some(req.mapping[1].anime_format) ELSE req.anilist.format
        /\ req.result.year =
              IF EntryHasYear THEN Some(req.mapping[1].year) ELSE req.anilist.year
        /\ req.pc = "processed" =>
              \A i \in 1..Len(req.processed) :
                  req.processed[i].anime_format = req.result.format

\* The same for the entries that have the key anime_format.
C27_WithFormatKey ==
    (ResolvedForEntry /\ "anime_format" \in req.mapping[1].keys) =>
        /\ req.result.format =
              IF EntryHasFormat THEN Some(req.mapping[1].anime_format) ELSE req.anilist.format
        /\ req.result.year =
              IF EntryHasYear THEN Some(req.mapping[1].year) ELSE req.anilist.year

\* ------------------------------------------------------------------------
\* Claims about the identity resolver
\* ------------------------------------------------------------------------

\* The resolver was asked and candidates came back.
CandidatesCame == req.resolver_called /\ req.upstream = "found"

\* The first candidate of the media list whose format is MOVIE.
FirstMovie == req.media[Min(MoviePlaces(req.media))]

\* C25: the resolver picks the first MOVIE candidate when the title is on
\* the list of well-known films or the request is a movie search (and there
\* is such a candidate); a series search (t=tvsearch) for a title that is
\* not on the list takes the first candidate, also when a MOVIE candidate
\* comes later in the list.
C25_SelectionOrder ==
    CandidatesCame =>
        /\ ((Lower(req.title) \in WellKnownMovies \/ req.t = "movie")
              /\ MoviePlaces(req.media) # {})
              => req.anilist.id = Some(FirstMovie.id)
        /\ (req.t = "tvsearch" /\ Lower(req.title) \notin WellKnownMovies)
              => req.anilist.id = Some(req.media[1].id)

\* The part of C25 about the film preference alone.
C25_FilmPreferred ==
    (CandidatesCame /\ MoviePlaces(req.media) # {}
        /\ (Lower(req.title) \in WellKnownMovies \/ req.t = "movie"))
        => req.anilist.id = Some(FirstMovie.id)

\* The candidate that was chosen as the main entry.
ChosenMedia == req.media[CHOOSE i \in 1..Len(req.media) : Some(req.media[i].id) = req.anilist.id]

\* The format rule of the related set as the claim states it.
PassesFormatRule(main, edge) ==
    IF main.format = Some("MOVIE")
    THEN edge.type \in {"SEQUEL", "PREQUEL", "SIDE_STORY", "ALTERNATIVE"} /\ edge.format = "MOVIE"
    ELSE edge.type \in {"SEQUEL", "PREQUEL"} /\ edge.format \in {"TV", "MOVIE"}

\* The first edge of the main entry that leads to id and passes the rule.
Discovered(main, id) ==
    Min({k \in 1..Len(main.edges) : main.edges[k].id = id /\ PassesFormatRule(main, main.edges[k])})

KeptRaw == SelectSeq(req.raw, IsNyaa)

\* process_seadex_torrents has run with the format MOVIE.
ProcessedAsMovie == req.pc = "processed" /\ req.result.format = Some("MOVIE")

\* C11: every raw release classified with the format MOVIE is a movie
\* whatever its file names say, is not a season pack even with an empty
\* groupedUrl, and has neither season nor episode.
C11_MovieFormatDecides ==
    ProcessedAsMovie =>
        /\ Len(req.processed) = Len(KeptRaw)
        /\ \A i \in 1..Len(req.processed) :
              /\ req.processed[i].is_movie
              /\ ~req.processed[i].is_season_pack
              /\ req.processed[i].season = None
              /\ req.processed[i].episode = None

\* A release with season/episode markers in its file names and an empty
\* groupedUrl was classified with the format MOVIE, as a movie.
C11_Witness ==
    /\ ProcessedAsMovie
    /\ \E i \in 1..Len(req.processed) :
          /\ GroupedEmpty(KeptRaw[i])
          /\ \E k \in 1..Len(KeptRaw[i].files) : HasEpisodeMarker(KeptRaw[i].files[k])
          /\ req.processed[i].is_movie

\* The release process_seadex_torrents makes of a raw release once its
\* groupedUrl is replaced.
WithGroupedUrl(raw, grouped) == ProcessOne([raw EXCEPT !.groupedUrl = grouped], req.result.format)

\* C12: a release that is not a movie is a season pack, without episode,
\* when its groupedUrl is empty or absent, and the same release with a
\* non-empty groupedUrl is an individual episode.
C12_GroupedUrlDecides ==
    req.pc = "processed" =>
        \A i \in 1..Len(req.processed) :
            ~req.processed[i].is_movie =>
                /\ req.processed[i].is_season_pack = GroupedEmpty(KeptRaw[i])
                /\ req.processed[i].is_season_pack => req.processed[i].episode = None
                /\ \A grouped \in {None, Some(<<>>)} :
                      /\ WithGroupedUrl(KeptRaw[i], grouped).is_season_pack
                      /\ WithGroupedUrl(KeptRaw[i], grouped).episode = None
                /\ ~WithGroupedUrl(KeptRaw[i], Some(<<"g">>)).is_season_pack

\* Releases that are not movies were classified: one whose groupedUrl key
\* is absent as a season pack, and one with a groupedUrl as an episode.
C12_Witness ==
    /\ req.pc = "processed"
    /\ \E i \in 1..Len(req.processed) :
          /\ KeptRaw[i].groupedUrl = None
          /\ ~req.processed[i].is_movie
          /\ req.processed[i].is_season_pack
          /\ req.processed[i].episode = None
    /\ \E i \in 1..Len(req.processed) :
          /\ ~GroupedEmpty(KeptRaw[i])
          /\ ~req.processed[i].is_movie
          /\ ~req.processed[i].is_season_pack

\* What extract_episode_info finds in the files of a raw release, in order.
InfosOf(raw) == [i \in 1..Len(raw.files) |-> extract_episode_info(raw.files[i])]

\* The files that yield an episode number and a season number, in order.
SeasonFiles(infos) == {i \in EpisodeFiles(infos) : Positive(infos[i].season)}

\* The first season number discovered in file order, or 1.
FirstSeason(infos) ==
    IF SeasonFiles(infos) = {} THEN Some(1) ELSE infos[Min(SeasonFiles(infos))].season

\* The first episode number discovered in file order, or null.
FirstEpisode(infos) ==
    IF EpisodeFiles(infos) = {} THEN None ELSE infos[Min(EpisodeFiles(infos))].episode

\* C24: for a release that is not a movie, season is the first season
\* number discovered in its files in order (1 if none); a season pack has
\* no episode, and an individual episode has the first discovered episode
\* number (null if none).
C24_FirstDiscovered ==
    req.pc = "processed" =>
        \A i \in 1..Len(req.processed) :
            ~req.processed[i].is_movie =>
                /\ req.processed[i].season = FirstSeason(InfosOf(KeptRaw[i]))
                /\ req.processed[i].is_season_pack => req.processed[i].episode = None
                /\ ~req.processed[i].is_season_pack =>
                      req.processed[i].episode = FirstEpisode(InfosOf(KeptRaw[i]))

\* ------------------------------------------------------------------------
\* Claims about the feed
\* ------------------------------------------------------------------------

\* A feed was asked of build_rss_enhanced and the handler is done.
FeedAsked == req.pc = "answered" /\ req.site # <<>>

\* What the detail lookup of the i-th release of the result gave.
LookedUp(i) == fetch_nyaa_metadata(PageOf(req.site, req.result.torrents[i].url))

\* The detail lookup of the i-th release failed: the request failed, or the
\* page could not be read into metadata.
LookupFailed(i) == LookedUp(i).metadata = None

\* C19: when the detail lookup of one release fails, the request still
\* succeeds and the feed has an item for every release, in order: the item
\* of a release whose lookup failed carries the fallback title (name and
\* release group) and the size already known, the item of every other
\* release carries the title and the size of its detail page.
C19_FailedLookupFallsBack ==
    FeedAsked =>
        /\ req.answer.kind = "rss"
        /\ Len(req.answer.items) = Len(req.result.torrents)
        /\ \A i \in 1..Len(req.answer.items) :
              /\ req.answer.items[i].link = req.result.torrents[i].url
              /\ LookupFailed(i) =>
                    /\ req.answer.items[i].title =
                          FallbackMetadata(req.result.name, req.result.torrents[i]).title
                    /\ req.answer.items[i].size = req.result.torrents[i].total_size
              /\ ~LookupFailed(i) =>
                    /\ req.answer.items[i].title = LookedUp(i).metadata[1].title
                    /\ req.answer.items[i].size = LookedUp(i).metadata[1].size_bytes

\* The part of C19 that holds: a lookup whose request fails (network error
\* or error status) leaves the feed with the fallback item of that release.
C19_FailedRequestFallsBack ==
    (FeedAsked /\ \A i \in 1..Len(req.result.torrents) : ~LookedUp(i).raised) =>
        /\ req.answer.kind = "rss"
        /\ Len(req.answer.items) = Len(req.result.torrents)
        /\ \A i \in 1..Len(req.answer.items) :
              LookupFailed(i) =>
                  req.answer.items[i].title =
                      FallbackMetadata(req.result.name, req.result.torrents[i]).title

\* A feed of two releases or more in which one lookup failed on the request
\* and another succeeded.
C19_FallbackReached ==
    /\ FeedAsked
    /\ req.answer.kind = "rss"
    /\ \E i, j \in 1..Len(req.answer.items) :
          /\ PageOf(req.site, req.result.torrents[i].url).kind # "page"
          /\ ~LookupFailed(j)

\* The release of an item counts as a movie.
MovieItem(i) ==
    req.result.torrents[i].is_movie \/ req.result.format = Some("MOVIE")

\* C20: an item is in category 5000 when the category is forced, or when
\* its release is not a movie and the format is not MOVIE, and in category
\* 2000 in every other case; the category element ("Anime" for 5000,
\* "Movies" for 2000) always agrees with the category attribute.
C20_CategoryAssigned ==
    (FeedAsked /\ req.answer.kind = "rss") =>
        \A i \in 1..Len(req.answer.items) :
            /\ req.answer.items[i].category =
                  IF req.answer.force_anime_category \/ ~MovieItem(i) THEN "5000" ELSE "2000"
            /\ req.answer.items[i].category_text =
                  IF req.answer.items[i].category = "5000" THEN "Anime" ELSE "Movies"

\* A movie placed in 5000 because the category is forced.
C20_Witness ==
    /\ FeedAsked
    /\ req.answer.kind = "rss"
    /\ req.answer.force_anime_category
    /\ \E i \in 1..Len(req.answer.items) :
          MovieItem(i) /\ req.answer.items[i].category = "5000"

\* C21: the item of a movie release carries season 1 and episode 1, also
\* when it is forced into category 5000; the item of any other release
\* carries the season and the episode of the release when they are known
\* and has no such attribute when the value is unknown (null).
C21_SeasonEpisodeAttributes ==
    (FeedAsked /\ req.answer.kind = "rss") =>
        \A i \in 1..Len(req.answer.items) :
            /\ MovieItem(i) =>
                  /\ req.answer.items[i].season = Some(1)
                  /\ req.answer.items[i].episode = Some(1)
            /\ ~MovieItem(i) =>
                  /\ req.answer.items[i].season = req.result.torrents[i].season
                  /\ req.answer.items[i].episode = req.result.torrents[i].episode

\* The answer is a results document: a feed or the empty feed.
ResultsDocument == req.pc = "answered" /\ req.answer.kind \in {"rss", "empty_rss"}

\* C22: in every results document the total of the response-count element
\* equals the number of items; when there are no releases the answer is a
\* well-formed results document with total 0 and not an error payload.
C22_TotalCountsItems ==
    /\ ResultsDocument =>
          /\ req.answer.total = Len(req.answer.items)
          /\ WellFormedText(req.answer.text)
    /\ (req.pc = "answered" /\ NothingFound(req.result) /\ req.response # "json") =>
          /\ req.answer.kind = "empty_rss"
          /\ req.answer.total = 0
          /\ WellFormedText(req.answer.text)

\* The part of C22 about the count alone.
C22_TotalAlone == ResultsDocument => req.answer.total = Len(req.answer.items)

\* ------------------------------------------------------------------------
\* Claims about the text functions
\* ------------------------------------------------------------------------

\* C13: process_search_query is idempotent: applied to its own output it
\* returns that output, also for queries with several trailing decorations
\* (year, season marker, episode marker) in any order.
C13_NormalizeIdempotent == req.pc = "twice" => req.twice = req.once

\* C15: for every file name that contains S03E07, extract_episode_info
\* gives season 3 and episode 7, whatever stands before or after it.
C15_S03E07Extracted == req.pc = "info" => req.info = Pair(Some(3), Some(7))

====
